---- MODULE Spec2Model ----
(***************************************************************************)
(* Symmetric-delete spelling correction engine (SymSpell, Go).             *)
(*                                                                         *)
(* Strings are sequences of code points.  Bytes(s) is the UTF-8 encoding   *)
(* of s; Go's len(s) and s[i] on a string are Len(Bytes(s)) and            *)
(* Bytes(s)[i+1].  Go slices are 0-based: a slice x of the program is the  *)
(* sequence whose element i+1 is x[i].                                     *)
(***************************************************************************)
EXTENDS Integers, Sequences, FiniteSets, TLC

VARIABLES
    s,         \* the SymSpell engine: tunables, term store, delete-index
    topCache,  \* s.topCache: capacity, recency list ll, key set cache
    frozen,    \* TRUE once the caller has started querying the store
    ret,       \* the last call and what it returned; op "loading" while LoadDictionary runs
    nInsert,   \* dictionary insertions made so far
    nLookup,   \* lookups made so far
    sums,      \* history: for each term, the sum of the counts added for it
    log,       \* history: the insertions made, in order
    kernel,    \* the last call of the edit-distance kernel and what it returned
    running,   \* the Lookup calls in progress, one per goroutine
    build      \* the LoadDictionary call in progress: its workers and their shards

vars == <<s, topCache, frozen, ret, nInsert, nLookup, sums, log, kernel, running, build>>

(***************************************************************************)
(* Bounds of the model.                                                    *)
(***************************************************************************)
\* longest query, in code points
MaxLen == 3
\* longest term, in code points
MaxTermLen == 2
\* number of dictionary insertions (addTerm calls and LoadDictionary lines)
MaxTerms == 2
\* number of lookups on the frozen store
MaxLookups == 1

(***************************************************************************)
(* Program constants.                                                      *)
(***************************************************************************)
RuneSelf == 128
TopCacheCapacity == 128
shardCount == 16

\* ^uint32(0), the largest count: 4294967295 = 65535 * 2^16 + 65535 (see the
\* numbers below)
maxUint32 == [hi |-> 65535, lo |-> 65535]

Top == "Top"
Closest == "Closest"
All == "All"
Verbosities == {Top, Closest, All}

(***************************************************************************)
(* Go builtins.                                                            *)
(***************************************************************************)
min(a, b) == IF a < b THEN a ELSE b
max(a, b) == IF a > b THEN a ELSE b
abs(a) == IF a < 0 THEN -a ELSE a

\* UTF-8 encoding of one code point below U+0800
Utf8(c) == IF c < RuneSelf THEN <<c>> ELSE <<192 + (c \div 64), 128 + (c % 64)>>

RECURSIVE Bytes(_)
Bytes(str) == IF str = <<>> THEN <<>> ELSE Utf8(Head(str)) \o Bytes(Tail(str))

isASCII(str) == \A i \in 1..Len(Bytes(str)) : Bytes(str)[i] < RuneSelf

\* x[lo:hi] of a Go slice (0-based, hi exclusive)
Slice(x, lo, hi) == [i \in 1..(hi - lo) |-> x[lo + i]]

\* x[:i] + x[i+1:]
DeleteAt(x, i) == Slice(x, 0, i) \o Slice(x, i + 1, Len(x))

(***************************************************************************)
(* Numbers beyond 2^31 - 1.  A count is a uint32 and reaches 2^32 - 1; the  *)
(* int made from a count (int has 64 bits) is the same number, and its     *)
(* product with FrequencyMultiplier is greater.  A count, and a number     *)
(* made from one, is written in base 2^16: [hi, lo] is hi * 2^16 + lo,     *)
(* with lo in 0 .. 2^16 - 1.  Equal numbers are equal records.             *)
(***************************************************************************)
\* the number n
Num(n) == [hi |-> n \div 65536, lo |-> n % 65536]

\* a < b
Less(a, b) == a.hi < b.hi \/ (a.hi = b.hi /\ a.lo < b.lo)

\* a + b
Plus(a, b) ==
    [hi |-> a.hi + b.hi + (a.lo + b.lo) \div 65536, lo |-> (a.lo + b.lo) % 65536]

\* a - b
Minus(a, b) ==
    [hi |-> a.hi - b.hi + (a.lo - b.lo) \div 65536, lo |-> (a.lo - b.lo) % 65536]

\* a * m for an int m of the model
Times(a, m) == [hi |-> a.hi * m + (a.lo * m) \div 65536, lo |-> (a.lo * m) % 65536]

\* the conversion to uint32, and the result of uint32 arithmetic: the low 32 bits
uint32(a) == [hi |-> a.hi % 65536, lo |-> a.lo]

(***************************************************************************)
(* Distance kernel.  A row buffer of n+1 ints is a function on 0..n.       *)
(* getIntSlice hands out a buffer whose cells hold whatever the last user  *)
(* left there; `fill` is that content.                                     *)
(***************************************************************************)
getIntSlice(size, fill) == [j \in 0..(size - 1) |-> fill]

\* the cell with a transposition test that compares one pair of characters only
CellHalfTransposition(a, b, i, j, prev2, prev, curr) ==
    LET cost == IF a[i] # b[j] THEN 1 ELSE 0
        del == prev[j] + 1
        ins == curr[j - 1] + 1
        sub == prev[j - 1] + cost
        dist == min(del, min(ins, sub))
    IN  IF i > 1 /\ j > 1 /\ a[i] = b[j - 1]
           /\ prev2[j - 2] + cost < dist
        THEN prev2[j - 2] + cost
        ELSE dist

\* one cell of the Damerau-Levenshtein recurrence
Cell(a, b, i, j, prev2, prev, curr) ==
    LET cost == IF a[i] # b[j] THEN 1 ELSE 0
        del == prev[j] + 1
        ins == curr[j - 1] + 1
        sub == prev[j - 1] + cost
        dist == min(del, min(ins, sub))
    IN  IF i > 1 /\ j > 1 /\ a[i] = b[j - 1] /\ a[i - 1] = b[j]
           /\ prev2[j - 2] + cost < dist
        THEN prev2[j - 2] + cost
        ELSE dist

RECURSIVE FillRow(_, _, _, _, _, _, _, _)
FillRow(a, b, i, j, jEnd, prev2, prev, curr) ==
    IF j > jEnd THEN curr
    ELSE FillRow(a, b, i, j + 1, jEnd, prev2, prev,
                 [curr EXCEPT ![j] = Cell(a, b, i, j, prev2, prev, curr)])

RECURSIVE DistanceRows(_, _, _, _, _, _)
DistanceRows(a, b, i, prev2, prev, curr) ==
    IF i > Len(a) THEN prev[Len(b)]
    ELSE LET row == FillRow(a, b, i, 1, Len(b), prev2, prev, [curr EXCEPT ![0] = i])
         IN  DistanceRows(a, b, i + 1, prev, row, prev2)

damerauLevenshteinDistance(a, b) ==
    LET m == Len(a)
        n == Len(b)
    IN  IF m = 0 THEN n
        ELSE IF n = 0 THEN m
        ELSE DistanceRows(a, b, 1, getIntSlice(n + 1, 0),
                          [j \in 0..n |-> j], getIntSlice(n + 1, 0))

damerauLevenshteinDistanceRunes(a, b) == damerauLevenshteinDistance(a, b)

Distance(a, b) ==
    IF isASCII(a) /\ isASCII(b)
    THEN damerauLevenshteinDistance(Bytes(a), Bytes(b))
    ELSE damerauLevenshteinDistanceRunes(a, b)

\* minimum of row[jStart..jEnd], starting from limit
RECURSIVE RowMin(_, _, _, _)
RowMin(row, j, jEnd, acc) ==
    IF j > jEnd THEN acc ELSE RowMin(row, j + 1, jEnd, min(acc, row[j]))

\* the banded rows without the limit written at the edges of the band: the
\* cells outside it keep what the buffer held
RECURSIVE DistanceMaxRowsStaleEdges(_, _, _, _, _, _, _)
DistanceMaxRowsStaleEdges(a, b, k, i, prev2, prev, curr) ==
    LET n == Len(b)
        limit == k + 1
        jStart == IF i > k THEN i - k ELSE 1
        jEnd == IF n > i + k THEN i + k ELSE n
        row == FillRow(a, b, i, jStart, jEnd, prev2, prev, [curr EXCEPT ![0] = i])
        rowMin == RowMin(row, jStart, jEnd, limit)
    IN  IF i > Len(a) THEN (IF prev[n] > k THEN k + 1 ELSE prev[n])
        ELSE IF rowMin > k THEN k + 1
        ELSE DistanceMaxRowsStaleEdges(a, b, k, i + 1, prev, row, prev2)

RECURSIVE DistanceMaxRows(_, _, _, _, _, _, _)
DistanceMaxRows(a, b, k, i, prev2, prev, curr) ==
    LET n == Len(b)
        limit == k + 1
        jStart == IF i > k THEN i - k ELSE 1
        jEnd == IF n > i + k THEN i + k ELSE n
        c0 == [curr EXCEPT ![0] = i]
        c1 == IF jStart > 1 THEN [c0 EXCEPT ![jStart - 1] = limit] ELSE c0
        row == FillRow(a, b, i, jStart, jEnd, prev2, prev, c1)
        rowMin == RowMin(row, jStart, jEnd, limit)
        c2 == IF jEnd < n THEN [row EXCEPT ![jEnd + 1] = limit] ELSE row
    IN  IF i > Len(a) THEN (IF prev[n] > k THEN k + 1 ELSE prev[n])
        ELSE IF rowMin > k THEN k + 1
        ELSE DistanceMaxRows(a, b, k, i + 1, prev, c2, prev2)

DistanceMaxKernel(a, b, k, fill) ==
    LET m == Len(a)
        n == Len(b)
    IN  IF m = 0 THEN (IF n <= k THEN n ELSE k + 1)
        ELSE IF n = 0 THEN (IF m <= k THEN m ELSE k + 1)
        ELSE IF m - n > k \/ m - n < -k THEN k + 1
        ELSE DistanceMaxRows(a, b, k, 1, getIntSlice(n + 1, fill),
                             [j \in 0..n |-> IF j <= k THEN j ELSE k + 1],
                             getIntSlice(n + 1, fill))

damerauLevenshteinDistanceMax(a, b, k) == DistanceMaxKernel(a, b, k, 0)

damerauLevenshteinDistanceMaxRunes(a, b, k) == DistanceMaxKernel(a, b, k, 0)

DistanceMax(a, b, maxDistance) ==
    IF isASCII(a) /\ isASCII(b)
    THEN damerauLevenshteinDistanceMax(Bytes(a), Bytes(b), maxDistance)
    ELSE damerauLevenshteinDistanceMaxRunes(a, b, maxDistance)

(***************************************************************************)
(* Go maps are functions with a finite domain.                             *)
(***************************************************************************)
EmptyMap == [x \in {} |-> 0]
MapPut(m, k, v) == [x \in (DOMAIN m) \cup {k} |-> IF x = k THEN v ELSE m[x]]
MapDelete(m, k) == [x \in (DOMAIN m) \ {k} |-> m[x]]

\* The order in which a range over a Go map visits the keys is unspecified:
\* every enumeration of the key set is an outcome (RangeOrders).  StrLess and
\* RangeOrder name one of them, the ascending one (shorter first, then by
\* code point).
RECURSIVE StrLess(_, _)
StrLess(a, b) ==
    IF Len(a) # Len(b) THEN Len(a) < Len(b)
    ELSE IF a = <<>> THEN FALSE
    ELSE IF Head(a) # Head(b) THEN Head(a) < Head(b)
    ELSE StrLess(Tail(a), Tail(b))

RECURSIVE RangeOrder(_)
RangeOrder(S) ==
    IF S = {} THEN <<>>
    ELSE LET x == CHOOSE y \in S : \A z \in S \ {y} : StrLess(y, z)
         IN  <<x>> \o RangeOrder(S \ {x})

\* every order in which a range over a map with the key set S can run
RECURSIVE RangeOrders(_)
RangeOrders(S) ==
    IF S = {} THEN {<<>>}
    ELSE UNION {{<<x>> \o t : t \in RangeOrders(S \ {x})} : x \in S}

(***************************************************************************)
(* Options and construction.                                               *)
(***************************************************************************)
DefaultOptions ==
    [MaxDictionaryEditDistance |-> 2, PrefixLength |-> 7, CountThreshold |-> 1,
     FrequencyThreshold |-> 1000, FrequencyMultiplier |-> 10]

newTopCache(capacity) == [capacity |-> capacity, ll |-> <<>>, cache |-> {}]

\* config.Apply(&opts) for the option function config: an option function is
\* the assignments it makes, a value for each field it sets
Apply(opts, config) ==
    [field \in DOMAIN opts |-> IF field \in DOMAIN config THEN config[field] ELSE opts[field]]

\* NewSymSpell with the last option function applied first
RECURSIVE ApplyAllLastFirst(_, _)
ApplyAllLastFirst(opts, opt) ==
    IF opt = <<>> THEN opts
    ELSE ApplyAllLastFirst(Apply(opts, opt[Len(opt)]), SubSeq(opt, 1, Len(opt) - 1))

\* the loop of NewSymSpell over its option functions
RECURSIVE ApplyAll(_, _)
ApplyAll(opts, opt) ==
    IF opt = <<>> THEN opts ELSE ApplyAll(Apply(opts, Head(opt)), Tail(opt))

\* NewSymSpell with the options already applied to the defaults
NewSymSpell(opts) ==
    IF opts.MaxDictionaryEditDistance < 0 THEN [err |-> "maxDictionaryEditDistance cannot be negative"]
    ELSE IF opts.PrefixLength < 1 THEN [err |-> "prefixLength cannot be less than 1"]
    ELSE IF opts.PrefixLength <= opts.MaxDictionaryEditDistance
         THEN [err |-> "prefixLength must be greater than maxDictionaryEditDistance"]
    ELSE IF opts.CountThreshold < 0 THEN [err |-> "countThreshold cannot be negative"]
    ELSE IF opts.FrequencyThreshold < 0 THEN [err |-> "frequencyThreshold cannot be negative"]
    ELSE IF opts.FrequencyMultiplier <= 1 THEN [err |-> "frequencyMultiplier must be greater than 1"]
    ELSE [err |-> "nil",
          s |-> [MaxDictionaryEditDistance |-> opts.MaxDictionaryEditDistance,
                 PrefixLength |-> opts.PrefixLength,
                 CountThreshold |-> opts.CountThreshold,
                 FrequencyThreshold |-> opts.FrequencyThreshold,
                 FrequencyMultiplier |-> opts.FrequencyMultiplier,
                 Words |-> EmptyMap,
                 BelowThresholdWords |-> [nil |-> FALSE, m |-> EmptyMap],
                 DeletesIdx |-> EmptyMap,
                 DeletesData |-> <<>>,
                 words |-> <<>>,
                 counts |-> <<>>,
                 maxLength |-> 0],
          topCache |-> newTopCache(TopCacheCapacity)]

(***************************************************************************)
(* Dictionary store.                                                       *)
(***************************************************************************)
incrementCount(count, countPrevious) ==
    IF Less(count, uint32(Minus(maxUint32, countPrevious)))
    THEN uint32(Plus(countPrevious, count))
    ELSE maxUint32

\* the append at the end of addWordEntry
AppendWord(e, key, count) ==
    [e EXCEPT !.words = Append(e.words, key),
              !.counts = Append(e.counts, count),
              !.Words = MapPut(e.Words, key, Len(e.words)),
              !.maxLength = max(e.maxLength, Len(Bytes(key)))]

\* a write to the below-threshold pool; a write to a nil map panics
PoolWrite(e, key, count) ==
    IF e.BelowThresholdWords.nil
    THEN [s |-> e, added |-> FALSE, panic |-> TRUE]
    ELSE [s |-> [e EXCEPT !.BelowThresholdWords.m = MapPut(e.BelowThresholdWords.m, key, count)],
          added |-> FALSE, panic |-> FALSE]

\* the tail of addWordEntry, from the threshold test on
AddOrPool(e, key, count) ==
    IF Less(count, Num(e.CountThreshold)) THEN PoolWrite(e, key, count)
    ELSE [s |-> AppendWord(e, key, count), added |-> TRUE, panic |-> FALSE]

addWordEntry(e, key, count) ==
    IF count = Num(0) /\ e.CountThreshold > 0 THEN [s |-> e, added |-> FALSE, panic |-> FALSE]
    ELSE IF e.CountThreshold > 1
    THEN IF key \in DOMAIN e.BelowThresholdWords.m
         THEN LET c == incrementCount(count, e.BelowThresholdWords.m[key])
              IN  IF Less(c, Num(e.CountThreshold)) THEN PoolWrite(e, key, c)
                  ELSE AddOrPool([e EXCEPT !.BelowThresholdWords.m =
                                      MapDelete(e.BelowThresholdWords.m, key)], key, c)
         ELSE AddOrPool(e, key, count)
    ELSE IF key \in DOMAIN e.Words
    THEN [s |-> [e EXCEPT !.counts[e.Words[key] + 1] =
                      incrementCount(count, e.counts[e.Words[key] + 1])],
          added |-> FALSE, panic |-> FALSE]
    ELSE AddOrPool(e, key, count)

(***************************************************************************)
(* Delete enumeration.                                                     *)
(***************************************************************************)
RECURSIVE edits(_, _, _, _, _)
RECURSIVE EditsLoop(_, _, _, _, _)
\* the for loop of edits, from position i on; editDistance is already incremented
EditsLoop(e, runes, editDistance, deleteWords, i) ==
    IF i >= Len(runes) THEN deleteWords
    ELSE LET deleteWord == DeleteAt(runes, i)
             d1 == deleteWords \cup {deleteWord}
             d2 == IF editDistance < e.MaxDictionaryEditDistance
                   THEN edits(e, deleteWord, editDistance, d1, i)
                   ELSE d1
         IN  EditsLoop(e, runes, editDistance, d2, i + 1)

edits(e, word, editDistance, deleteWords, currentDistance) ==
    IF Len(word) = 0
    THEN (IF Len(word) <= e.MaxDictionaryEditDistance THEN deleteWords \cup {<<>>}
          ELSE deleteWords)
    ELSE EditsLoop(e, word, editDistance + 1, deleteWords, currentDistance)

editsPrefix(e, key) ==
    LET h0 == IF Len(key) <= e.MaxDictionaryEditDistance THEN {<<>>} ELSE {}
        k2 == IF Len(key) > e.PrefixLength THEN Slice(key, 0, e.PrefixLength) ELSE key
    IN  edits(e, k2, 0, h0 \cup {k2}, 0)

(***************************************************************************)
(* Delete-index: DeletesIdx maps a variant to its run [offset, length] in  *)
(* DeletesData (the program packs the pair into one uint64).               *)
(***************************************************************************)
\* addDeletesForIndex without the shift of the runs behind the insertion
AddDeleteNoShift(e, deleteWord, index) ==
    IF deleteWord \in DOMAIN e.DeletesIdx
    THEN LET v == e.DeletesIdx[deleteWord]
             insertPos == v.offset + v.length
         IN  [e EXCEPT
                !.DeletesData = Slice(e.DeletesData, 0, insertPos) \o <<index>>
                                \o Slice(e.DeletesData, insertPos, Len(e.DeletesData)),
                !.DeletesIdx[deleteWord] = [offset |-> v.offset, length |-> v.length + 1]]
    ELSE [e EXCEPT
            !.DeletesData = Append(e.DeletesData, index),
            !.DeletesIdx = MapPut(e.DeletesIdx, deleteWord,
                                  [offset |-> Len(e.DeletesData), length |-> 1])]

\* one iteration of the loop of addDeletesForIndex
AddDelete(e, deleteWord, index) ==
    IF deleteWord \in DOMAIN e.DeletesIdx
    THEN LET v == e.DeletesIdx[deleteWord]
             insertPos == v.offset + v.length
         IN  [e EXCEPT
                !.DeletesData = Slice(e.DeletesData, 0, insertPos) \o <<index>>
                                \o Slice(e.DeletesData, insertPos, Len(e.DeletesData)),
                !.DeletesIdx = [k \in DOMAIN e.DeletesIdx |->
                    IF k = deleteWord THEN [offset |-> v.offset, length |-> v.length + 1]
                    ELSE IF e.DeletesIdx[k].offset >= insertPos
                         THEN [offset |-> e.DeletesIdx[k].offset + 1,
                               length |-> e.DeletesIdx[k].length]
                         ELSE e.DeletesIdx[k]]]
    ELSE [e EXCEPT
            !.DeletesData = Append(e.DeletesData, index),
            !.DeletesIdx = MapPut(e.DeletesIdx, deleteWord,
                                  [offset |-> Len(e.DeletesData), length |-> 1])]

RECURSIVE AddDeletes(_, _, _)
AddDeletes(e, order, index) ==
    IF order = <<>> THEN e
    ELSE AddDeletes(AddDelete(e, Head(order), index), Tail(order), index)

\* order is the order in which the range over editsPrefix(key) runs
addDeletesForIndex(e, key, index, order) == AddDeletes(e, order, index)

createDictionaryEntry(e, key, count, order) ==
    LET r == addWordEntry(e, key, count)
    IN  IF ~r.added THEN r
        ELSE [r EXCEPT !.s = addDeletesForIndex(r.s, key, Len(r.s.words) - 1, order)]


(***************************************************************************)
(* LoadDictionary.  corpus is what the call finds at corpusPath: an empty  *)
(* path, no file, a file that cannot be opened, or a file; `lines` are the *)
(* (term, count) pairs of the lines of the file that parse; readErr says   *)
(* that the scanner ended with an error after them.                        *)
(***************************************************************************)
Corpora == {"empty path", "no file", "no access", "file"}

RECURSIVE AddLines(_, _)
AddLines(r, lines) ==
    IF lines = <<>> \/ r.panic THEN r
    ELSE AddLines(addWordEntry(r.s, Head(lines).term, Head(lines).count), Tail(lines))

\* the ids one worker visits: offset, offset+shardCount, ... below len(words)
RECURSIVE ShardIds(_, _)
ShardIds(e, idx) ==
    IF idx >= Len(e.words) THEN <<>> ELSE <<idx>> \o ShardIds(e, idx + shardCount)

\* shard[del] of the worker started at offset
ShardRun(e, offset, del) ==
    LET Has(idx) == del \in editsPrefix(e, e.words[idx + 1])
    IN  SelectSeq(ShardIds(e, offset), Has)

\* combined[del]: the shards' slices appended in shard order
RECURSIVE Combined(_, _, _)
Combined(e, del, offset) ==
    IF offset >= shardCount THEN <<>>
    ELSE ShardRun(e, offset, del) \o Combined(e, del, offset + 1)

RECURSIVE PackRuns(_, _)
PackRuns(e, order) ==
    IF order = <<>> THEN e
    ELSE LET slice == Combined(e, Head(order), 0)
         IN  PackRuns([e EXCEPT
                         !.DeletesData = e.DeletesData \o slice,
                         !.DeletesIdx = MapPut(e.DeletesIdx, Head(order),
                             [offset |-> Len(e.DeletesData), length |-> Len(slice)])],
                      Tail(order))

\* the keys of combined: the variants of every word of the list after the
\* lines were read
LoadVariants(e, lines) ==
    LET r == AddLines([s |-> e, added |-> FALSE, panic |-> FALSE], lines)
    IN  UNION {editsPrefix(r.s, r.s.words[i]) : i \in 1..Len(r.s.words)}

\* what LoadDictionary returns without building the index
ReturnsEarly(e, err, panic) == [s |-> e, ok |-> FALSE, err |-> err, panic |-> panic, returned |-> TRUE]

\* LoadDictionary up to the start of the workers: the tests of the path, the
\* scanner loop and the test of the scanner's error
LoadRead(e, corpus, lines, readErr) ==
    IF corpus = "empty path" THEN ReturnsEarly(e, "path", FALSE)
    ELSE IF corpus = "no file" THEN ReturnsEarly(e, "nil", FALSE)
    ELSE IF corpus = "no access" THEN ReturnsEarly(e, "open", FALSE)
    ELSE LET r == AddLines([s |-> e, added |-> FALSE, panic |-> FALSE], lines)
         IN  IF r.panic THEN ReturnsEarly(r.s, "nil", TRUE)
             ELSE IF readErr THEN ReturnsEarly(r.s, "read", FALSE)
             ELSE [s |-> r.s, ok |-> TRUE, err |-> "nil", panic |-> FALSE, returned |-> FALSE]

\* the whole call as one goroutine makes it; order is the order in which the
\* range over combined runs
LoadDictionary(e, corpus, lines, readErr, order) ==
    LET r == LoadRead(e, corpus, lines, readErr)
    IN  IF r.returned THEN [s |-> r.s, ok |-> r.ok, err |-> r.err, panic |-> r.panic]
        ELSE [s |-> [PackRuns(r.s, order)
                        EXCEPT !.BelowThresholdWords = [nil |-> TRUE, m |-> EmptyMap]],
              ok |-> TRUE, err |-> "nil", panic |-> FALSE]

(***************************************************************************)
(* Top-result cache.  ll is the recency list, front first; cache is the    *)
(* key set of the map, whose element for a key is the list entry holding   *)
(* that key.                                                               *)
(***************************************************************************)
IndexOfKey(ll, key) == CHOOSE i \in 1..Len(ll) : ll[i].key = key

MoveToFront(ll, i) == <<ll[i]>> \o Slice(ll, 0, i - 1) \o Slice(ll, i, Len(ll))

\* topCache.Get that leaves the recency list as it is
CacheGetNoTouch(c, key) ==
    IF key \in c.cache
    THEN [c |-> c, val |-> <<c.ll[IndexOfKey(c.ll, key)].val>>, ok |-> TRUE]
    ELSE [c |-> c, val |-> <<>>, ok |-> FALSE]

CacheGet(c, key) ==
    IF key \in c.cache
    THEN LET i == IndexOfKey(c.ll, key)
         IN  [c |-> [c EXCEPT !.ll = MoveToFront(c.ll, i)], val |-> <<c.ll[i].val>>, ok |-> TRUE]
    ELSE [c |-> c, val |-> <<>>, ok |-> FALSE]

CacheAdd(c, key, val) ==
    IF key \in c.cache
    THEN LET i == IndexOfKey(c.ll, key)
             moved == MoveToFront(c.ll, i)
         IN  [c EXCEPT !.ll = [moved EXCEPT ![1] = [key |-> key, val |-> val]]]
    ELSE LET pushed == <<[key |-> key, val |-> val]>> \o c.ll
         IN  IF Len(pushed) > c.capacity
             THEN [c EXCEPT !.ll = Slice(pushed, 0, Len(pushed) - 1),
                            !.cache = (c.cache \cup {key}) \ {pushed[Len(pushed)].key}]
             ELSE [c EXCEPT !.ll = pushed, !.cache = c.cache \cup {key}]


(***************************************************************************)
(* Lookup engine.  The candidate processor cp is a record; a function of   *)
(* the program that changes cp and returns a bool returns [cp, skip].      *)
(* cp.observed is a history field: the distances of the items offered to   *)
(* the accumulator so far.                                                 *)
(***************************************************************************)
SuggestItem(term, distance, count) == [Term |-> term, Distance |-> distance, Count |-> count]

\* the units the processor measures and indexes a string in: code points
\* when the phrase is not ASCII, bytes otherwise
Units(cp, str) == IF cp.unicode THEN str ELSE Bytes(str)

acquireCandidateProcessor(maxEditDistance, verbosity, phrase) ==
    [candidates |-> <<>>,
     consideredDeletes |-> {},
     consideredSuggestions |-> {},
     maxEditDistance2 |-> maxEditDistance,
     candidatePointer |-> 0,
     verbosity |-> verbosity,
     phrase |-> phrase,
     unicode |-> ~isASCII(phrase),
     phraseLen |-> IF ~isASCII(phrase) THEN Len(phrase) ELSE Len(Bytes(phrase)),
     candidateLen |-> 0,
     distance |-> 0,
     minDistance |-> 0,
     suggestions |-> <<>>,
     suggestionLen |-> 0,
     lenDiff |-> 0,
     observed |-> {}]

getOriginPrefix(e, cp) ==
    IF cp.phraseLen > e.PrefixLength THEN Slice(cp.phrase, 0, e.PrefixLength) ELSE cp.phrase

\* exactItem is <<>> for nil and <<item>> otherwise
checkExactMatch(e, phrase, verbosity, cp) ==
    IF phrase \in DOMAIN e.Words
    THEN LET count == e.counts[e.Words[phrase] + 1]
             exactItem == SuggestItem(phrase, 0, count)
             c1 == [cp EXCEPT !.suggestions = Append(cp.suggestions, exactItem),
                              !.observed = cp.observed \cup {0}]
         IN  [cp |-> c1,
              shouldStop |-> (verbosity # All /\ ~Less(count, Num(e.FrequencyThreshold))),
              exactItem |-> <<exactItem>>]
    ELSE [cp |-> cp, shouldStop |-> FALSE, exactItem |-> <<>>]

\* the loop of finalizeWithFrequencyCheck over suggestions[i..]
RECURSIVE BestAlternative(_, _, _, _, _)
BestAlternative(e, suggestions, exactMatch, i, best) ==
    IF i > Len(suggestions) THEN best
    ELSE LET suggestion == suggestions[i]
             requiredFrequency == Times(exactMatch.Count, e.FrequencyMultiplier)
             better == /\ suggestion.Distance # 0
                       /\ suggestion.Distance <= 2
                       /\ ~Less(suggestion.Count, requiredFrequency)
                       /\ \/ best = <<>>
                          \/ Less(best[1].Count, suggestion.Count)
                          \/ /\ suggestion.Count = best[1].Count
                             /\ suggestion.Distance < best[1].Distance
         IN  BestAlternative(e, suggestions, exactMatch, i + 1,
                             IF better THEN <<suggestion>> ELSE best)

NotExact(item) == item.Distance # 0

finalizeWithFrequencyCheck(e, cp, exactMatch) ==
    IF exactMatch = <<>> THEN cp
    ELSE IF Len(cp.suggestions) <= 1 THEN cp
    ELSE IF BestAlternative(e, cp.suggestions, exactMatch[1], 1, <<>>) # <<>>
    THEN [cp EXCEPT !.suggestions = SelectSeq(cp.suggestions, NotExact)]
    ELSE cp

preProcessCandidate(cp) ==
    LET candidate == cp.candidates[cp.candidatePointer + 1]
        candidateLen == Len(Units(cp, candidate))
    IN  [cp EXCEPT !.candidatePointer = cp.candidatePointer + 1,
                   !.candidateLen = candidateLen,
                   !.lenDiff = cp.phraseLen - candidateLen]

updateSuggestion(cp, suggestion) ==
    [cp EXCEPT !.suggestionLen = Len(Units(cp, suggestion))]

resetDistance(cp) == [cp EXCEPT !.distance = 0, !.minDistance = 0]

checkSuggestionToSkip(e, cp, suggestion, candidate) ==
    IF \/ abs(cp.suggestionLen - cp.phraseLen) > cp.maxEditDistance2
       \/ cp.suggestionLen < cp.candidateLen
       \/ (cp.suggestionLen = cp.candidateLen /\ suggestion # candidate)
    THEN TRUE
    ELSE LET suggestionPrefixLen == min(cp.suggestionLen, e.PrefixLength)
         IN  /\ suggestionPrefixLen > cp.phraseLen
             /\ suggestionPrefixLen - cp.candidateLen > cp.maxEditDistance2

updateMinDistance(e, maxEditDistance, cp) ==
    IF e.PrefixLength - maxEditDistance = cp.candidateLen
    THEN [cp EXCEPT !.minDistance = min(cp.phraseLen, cp.suggestionLen) - e.PrefixLength]
    ELSE [cp EXCEPT !.minDistance = 0]

\* the distance checkFirstRuneDistance computes
FirstRuneDistance(cp, suggestion) ==
    IF \E i \in 1..Len(Units(cp, cp.phrase)) :
           Units(cp, cp.phrase)[i] = Units(cp, suggestion)[1]
    THEN cp.phraseLen - 1
    ELSE cp.phraseLen

checkFirstRuneDistance(cp, suggestion) ==
    [cp |-> [cp EXCEPT !.distance = FirstRuneDistance(cp, suggestion)],
     skip |-> \/ FirstRuneDistance(cp, suggestion) > cp.maxEditDistance2
              \/ suggestion \in cp.consideredSuggestions]

\* x[i] and x[from:] on the units of a string, 0-based as in the program
checkProcessShouldSkip(cp, suggestion) ==
    LET pr == Units(cp, cp.phrase)
        sr == Units(cp, suggestion)
        pl == cp.phraseLen
        sl == cp.suggestionLen
        md == cp.minDistance
    IN  IF md > 1 /\ Slice(pr, pl + 1 - md, Len(pr)) # Slice(sr, sl + 1 - md, Len(sr))
        THEN TRUE
        ELSE /\ md > 0
             /\ pr[pl - md + 1] # sr[sl - md + 1]
             /\ \/ pr[pl - md] # sr[sl - md + 1]
                \/ pr[pl - md + 1] # sr[sl - md]

\* the end of distanceCompare
Capped(distance, maxDistance) == IF distance > maxDistance THEN -1 ELSE distance

distanceCompare(a, b, maxDistance) == Capped(DistanceMax(a, b, maxDistance), maxDistance)

\* the end of checkDistanceToSkip: d is the result of distanceCompare
ConsiderWithDistance(cp, suggestion, d) ==
    [cp |-> [cp EXCEPT !.consideredSuggestions = cp.consideredSuggestions \cup {suggestion},
                       !.distance = d],
     skip |-> d < 0]

checkDistanceToSkip(e, maxEditDistance, cp, suggestion) ==
    IF e.PrefixLength - maxEditDistance = cp.candidateLen /\ checkProcessShouldSkip(cp, suggestion)
    THEN [cp |-> cp, skip |-> TRUE]
    ELSE IF suggestion \in cp.consideredSuggestions
    THEN [cp |-> cp, skip |-> TRUE]
    ELSE ConsiderWithDistance(cp, suggestion,
                              distanceCompare(cp.phrase, suggestion, cp.maxEditDistance2))

\* updateBestSuggestion whose Top branch falls through to the append
updateBestSuggestionFallsThrough(cp, suggestionCount, item) ==
    IF cp.verbosity = Closest
    THEN [cp |-> IF cp.distance < cp.maxEditDistance2
                 THEN [cp EXCEPT !.suggestions = <<>>] ELSE cp,
          shouldContinue |-> FALSE]
    ELSE IF cp.verbosity = Top
    THEN [cp |-> IF \/ cp.distance < cp.maxEditDistance2
                    \/ Less(cp.suggestions[1].Count, suggestionCount)
                 THEN [cp EXCEPT !.maxEditDistance2 = cp.distance, !.suggestions[1] = item]
                 ELSE cp,
          shouldContinue |-> FALSE]
    ELSE [cp |-> cp, shouldContinue |-> FALSE]

updateBestSuggestion(cp, suggestionCount, item) ==
    IF cp.verbosity = Closest
    THEN [cp |-> IF cp.distance < cp.maxEditDistance2
                 THEN [cp EXCEPT !.suggestions = <<>>] ELSE cp,
          shouldContinue |-> FALSE]
    ELSE IF cp.verbosity = Top
    THEN [cp |-> IF \/ cp.distance < cp.maxEditDistance2
                    \/ Less(cp.suggestions[1].Count, suggestionCount)
                 THEN [cp EXCEPT !.maxEditDistance2 = cp.distance, !.suggestions[1] = item]
                 ELSE cp,
          shouldContinue |-> TRUE]
    ELSE [cp |-> cp, shouldContinue |-> FALSE]

\* updateSuggestions after the call of updateBestSuggestion, whose result is r
AppendSuggestion(r, item) ==
    IF r.shouldContinue THEN r.cp
    ELSE [r.cp EXCEPT !.maxEditDistance2 = IF r.cp.verbosity # All THEN r.cp.distance
                                           ELSE r.cp.maxEditDistance2,
                      !.suggestions = Append(r.cp.suggestions, item)]

updateSuggestions(e, idx, suggestion, cp) ==
    AppendSuggestion(
        IF Len(cp.suggestions) > 0
        THEN updateBestSuggestion([cp EXCEPT !.observed = cp.observed \cup {cp.distance}],
                                  e.counts[idx + 1],
                                  SuggestItem(suggestion, cp.distance, e.counts[idx + 1]))
        ELSE [cp |-> [cp EXCEPT !.observed = cp.observed \cup {cp.distance}],
              shouldContinue |-> FALSE],
        SuggestItem(suggestion, cp.distance, e.counts[idx + 1]))

RECURSIVE AddEdits(_, _, _)
\* the loop of addEditDistance from position i on
AddEdits(units, cp, i) ==
    IF i >= Len(units) THEN cp
    ELSE AddEdits(units,
                  IF DeleteAt(units, i) \in cp.consideredDeletes THEN cp
                  ELSE [cp EXCEPT !.consideredDeletes = cp.consideredDeletes \cup {DeleteAt(units, i)},
                                  !.candidates = Append(cp.candidates, DeleteAt(units, i))],
                  i + 1)

\* a candidate is cut from the phrase, so its bytes are its code points
\* when the phrase is ASCII
addEditDistance(candidate, cp) == AddEdits(candidate, cp, 0)

\* the distance of the suggestion by the three cases of processCandidate;
\* cp has its distance reset
SuggestionDistance(e, maxEditDistance, cp, suggestion) ==
    IF cp.candidateLen = 0
    THEN [cp |-> [cp EXCEPT !.distance = max(cp.phraseLen, cp.suggestionLen)],
          skip |-> \/ max(cp.phraseLen, cp.suggestionLen) > cp.maxEditDistance2
                   \/ suggestion \in cp.consideredSuggestions]
    ELSE IF cp.suggestionLen = 1 THEN checkFirstRuneDistance(cp, suggestion)
    ELSE checkDistanceToSkip(e, maxEditDistance, updateMinDistance(e, maxEditDistance, cp),
                             suggestion)

\* the end of the loop body: r is the distance computation's [cp, skip]
Integrate(e, idx, suggestion, r) ==
    IF r.skip THEN r.cp
    ELSE IF r.cp.distance <= r.cp.maxEditDistance2
    THEN updateSuggestions(e, idx, suggestion, r.cp)
    ELSE r.cp

\* the loop body from checkSuggestionToSkip on; cp has suggestionLen set
CheckedPosting(e, maxEditDistance, cp, candidate, idx, suggestion) ==
    IF checkSuggestionToSkip(e, cp, suggestion, candidate) THEN cp
    ELSE Integrate(e, idx, suggestion,
                   SuggestionDistance(e, maxEditDistance, resetDistance(cp), suggestion))

\* the body of the loop over the postings of candidate, for posting idx
ProcessPosting(e, maxEditDistance, cp, candidate, idx) ==
    IF e.words[idx + 1] = cp.phrase THEN cp
    ELSE CheckedPosting(e, maxEditDistance, updateSuggestion(cp, e.words[idx + 1]),
                        candidate, idx, e.words[idx + 1])

RECURSIVE PostingsLoop(_, _, _, _, _, _)
PostingsLoop(e, maxEditDistance, cp, candidate, i, end) ==
    IF i >= end THEN cp
    ELSE PostingsLoop(e, maxEditDistance,
                      ProcessPosting(e, maxEditDistance, cp, candidate, e.DeletesData[i + 1]),
                      candidate, i + 1, end)

\* the postings of candidate, when DeletesIdx has it
CheckSuggestions(e, maxEditDistance, cp, candidate) ==
    IF candidate \in DOMAIN e.DeletesIdx
    THEN PostingsLoop(e, maxEditDistance, cp, candidate, e.DeletesIdx[candidate].offset,
                      e.DeletesIdx[candidate].offset + e.DeletesIdx[candidate].length)
    ELSE cp

\* the end of the loop body of processCandidate: enqueue the deletes of candidate
ExpandCandidate(e, maxEditDistance, cp, candidate) ==
    IF cp.lenDiff <= maxEditDistance /\ cp.candidateLen <= e.PrefixLength
       /\ ~(cp.verbosity # All /\ cp.lenDiff >= cp.maxEditDistance2)
    THEN addEditDistance(candidate, cp)
    ELSE cp

RECURSIVE processCandidate(_, _, _)
\* the loop body of processCandidate; cp is preprocessed for candidate
ProcessOne(e, maxEditDistance, cp, candidate) ==
    IF cp.lenDiff > cp.maxEditDistance2
    THEN (IF cp.verbosity = All THEN processCandidate(e, maxEditDistance, cp) ELSE cp)
    ELSE processCandidate(e, maxEditDistance,
             ExpandCandidate(e, maxEditDistance,
                             CheckSuggestions(e, maxEditDistance, cp, candidate), candidate))

processCandidate(e, maxEditDistance, cp) ==
    IF cp.candidatePointer >= Len(cp.candidates) THEN cp
    ELSE ProcessOne(e, maxEditDistance, preProcessCandidate(cp),
                    cp.candidates[cp.candidatePointer + 1])

\* less(j, j-1) of sortCandidate
\* a less function that forgets the count
SortLessByDistance(x, y) == x.Distance < y.Distance

SortLess(x, y) ==
    IF x.Distance = y.Distance THEN Less(y.Count, x.Count) ELSE x.Distance < y.Distance

\* sort.Slice on at most 12 elements is an insertion sort
RECURSIVE InsertBack(_, _)
InsertBack(x, j) ==
    IF j > 1 /\ SortLess(x[j], x[j - 1])
    THEN InsertBack([x EXCEPT ![j] = x[j - 1], ![j - 1] = x[j]], j - 1)
    ELSE x

RECURSIVE InsertionSort(_, _)
InsertionSort(x, i) == IF i > Len(x) THEN x ELSE InsertionSort(InsertBack(x, i), i + 1)

sortCandidate(cp) ==
    IF Len(cp.suggestions) > 1
    THEN [cp EXCEPT !.suggestions = InsertionSort(cp.suggestions, 2)]
    ELSE cp

\* Lookup from the frontier initialisation to the end of processCandidate
Search(e, maxEditDistance, cp) ==
    processCandidate(e, maxEditDistance,
        [cp EXCEPT !.consideredSuggestions = cp.consideredSuggestions \cup {cp.phrase},
                   !.candidates = Append(cp.candidates, getOriginPrefix(e, cp))])

\* the return of Lookup after the search: result is the sorted list
ReturnAndCache(c, phrase, verbosity, result) ==
    [result |-> result, err |-> "nil",
     topCache |-> IF verbosity = Top /\ Len(result) > 0
                  THEN CacheAdd(c, phrase, result[1]) ELSE c]

\* Lookup from the exact match's result on
AfterExactMatch(e, c, phrase, verbosity, maxEditDistance, exactMatch) ==
    IF exactMatch.shouldStop \/ maxEditDistance = 0
    THEN [result |-> exactMatch.cp.suggestions, err |-> "nil", topCache |-> c]
    ELSE ReturnAndCache(c, phrase, verbosity,
             sortCandidate(finalizeWithFrequencyCheck(e,
                 Search(e, maxEditDistance, exactMatch.cp), exactMatch.exactItem)).suggestions)

\* Lookup from the acquisition of the candidate processor on
Uncached(e, c, phrase, verbosity, maxEditDistance, cp) ==
    IF cp.phraseLen - maxEditDistance > e.maxLength
    THEN [result |-> cp.suggestions, err |-> "nil", topCache |-> c]
    ELSE AfterExactMatch(e, c, phrase, verbosity, maxEditDistance,
                         checkExactMatch(e, phrase, verbosity, cp))

\* the cache hit of Lookup: hit is the result of topCache.Get
CacheHit(hit) == [result |-> hit.val, err |-> "nil", topCache |-> hit.c]

Lookup(e, c, phrase, verbosity, maxEditDistance) ==
    IF maxEditDistance > e.MaxDictionaryEditDistance
    THEN [result |-> <<>>, err |-> "distance too large", topCache |-> c]
    ELSE IF verbosity = Top /\ phrase \in c.cache
    THEN CacheHit(CacheGet(c, phrase))
    ELSE Uncached(e, c, phrase, verbosity, maxEditDistance,
                  acquireCandidateProcessor(maxEditDistance, verbosity, phrase))

(***************************************************************************)
(* Inputs.                                                                 *)
(***************************************************************************)
Alphabet == {97, 98}

RECURSIVE StringsOfLen(_)
StringsOfLen(n) ==
    IF n = 0 THEN {<<>>}
    ELSE {Append(x, c) : x \in StringsOfLen(n - 1), c \in Alphabet}

StringsUpTo(n) == UNION {StringsOfLen(i) : i \in 0..n}

Counts == {Num(1), Num(2)}

Options(d, p, c) ==
    [MaxDictionaryEditDistance |-> d, PrefixLength |-> p, CountThreshold |-> c,
     FrequencyThreshold |-> 2, FrequencyMultiplier |-> 2]

NoCall == [op |-> "new", phrase |-> <<>>, verbosity |-> All, k |-> 0, result |-> <<>>,
           err |-> "nil", added |-> FALSE, panic |-> FALSE, opt |-> <<>>]

\* no LoadDictionary call in progress
NoBuild == [phase |-> "none", shards |-> <<>>, next |-> <<>>, trace |-> <<>>,
            lines |-> <<>>, before |-> <<>>]

\* an option function that sets one field: With<field>(value)
With(field, value) == [f \in {field} |-> value]

\* the option functions that set two fields
WithSmartFrequencyCorrection == [FrequencyThreshold |-> 1000, FrequencyMultiplier |-> 10]
WithStrictFrequencyCorrection == [FrequencyThreshold |-> 5000, FrequencyMultiplier |-> 5]
WithLenientFrequencyCorrection == [FrequencyThreshold |-> 100, FrequencyMultiplier |-> 20]

\* an option function that sets a field NewSymSpell does not read
\* (WithSplitItemThreshold, WithPreserveCase, WithSplitWordBySpace,
\* WithMinimumCharacterToChange, WithSplitWordAndNumbers)
WithUnreadField == [f \in {} |-> 0]

\* the option functions that request exactly the tunables opts
AsFunctions(opts) ==
    <<With("MaxDictionaryEditDistance", opts.MaxDictionaryEditDistance),
      With("PrefixLength", opts.PrefixLength),
      With("CountThreshold", opts.CountThreshold),
      With("FrequencyThreshold", opts.FrequencyThreshold),
      With("FrequencyMultiplier", opts.FrequencyMultiplier)>>

(***************************************************************************)
(* The calls of the state machine: construct, build the dictionary,       *)
(* freeze, query.  Each takes the inputs it ranges over.                   *)
(***************************************************************************)
\* no call of the kernel yet
NoDistance == [op |-> "none", a |-> <<>>, b |-> <<>>, k |-> 0, result |-> 0]

(***************************************************************************)
(* The recency list at the level of its pointers.  container/list keeps a  *)
(* ring of elements around a sentinel: element 0 is the sentinel (l.root), *)
(* elements 1..n are the entries (a new one gets the next number), -1 is   *)
(* nil.  list[e] says that e.list is the list, len is l.len, cache is the  *)
(* map of topCache from a key to its element.                              *)
(***************************************************************************)
\* the memory of a cache that sequential calls left as c
HeapOf(c) ==
    [capacity |-> c.capacity,
     next |-> [i \in 0..Len(c.ll) |-> IF i = Len(c.ll) THEN 0 ELSE i + 1],
     prev |-> [i \in 0..Len(c.ll) |-> IF i = 0 THEN Len(c.ll) ELSE i - 1],
     list |-> [i \in 1..Len(c.ll) |-> TRUE],
     Value |-> c.ll,
     len |-> Len(c.ll),
     cache |-> [key \in c.cache |-> IndexOfKey(c.ll, key)]]

\* the entries met from element x following next, at most fuel of them
RECURSIVE EntriesFrom(_, _, _)
EntriesFrom(h, x, fuel) ==
    IF x <= 0 \/ fuel = 0 THEN <<>>
    ELSE <<h.Value[x]>> \o EntriesFrom(h, h.next[x], fuel - 1)

\* the cache that a traversal of the memory h from the front shows
CacheOf(h) ==
    [capacity |-> h.capacity,
     ll |-> EntriesFrom(h, h.next[0], Len(h.Value)),
     cache |-> DOMAIN h.cache]

\* &Element{Value: v}
Allocated(h, v) ==
    [h EXCEPT !.next = [i \in 0..(Len(h.Value) + 1) |->
                            IF i > Len(h.Value) THEN -1 ELSE h.next[i]],
              !.prev = [i \in 0..(Len(h.Value) + 1) |->
                            IF i > Len(h.Value) THEN -1 ELSE h.prev[i]],
              !.list = Append(h.list, FALSE),
              !.Value = Append(h.Value, v)]

SetNext(h, x, y) == [h EXCEPT !.next[x] = y]
SetPrev(h, x, y) == [h EXCEPT !.prev[x] = y]

\* the goroutines that call Lookup at the same time
Goroutines == 1..2

\* a goroutine that has not called Lookup
\* (e, n, key and after are locals of the cache calls: the element in hand,
\* the length read by l.len++, the key read for the eviction, the caller of
\* MoveToFront; p and q are the pointers loaded for the statement in hand,
\* from e.prev and from e.next or l.root.next, and loaded says which are)
Idle == [pc |-> "idle", phrase |-> <<>>, verbosity |-> All, k |-> 0,
         result |-> <<>>, err |-> "nil", item |-> <<>>,
         e |-> 0, n |-> 0, key |-> <<>>, after |-> "none",
         loaded |-> {}, p |-> 0, q |-> 0]

\* no Lookup in progress
NoGoroutines == [start |-> newTopCache(TopCacheCapacity),
                 heap |-> HeapOf(newTopCache(TopCacheCapacity)),
                 g |-> [i \in Goroutines |-> Idle], fatal |-> FALSE]

Construct(optionSets) ==
    \E opts \in optionSets :
        /\ NewSymSpell(opts).err = "nil"
        /\ s = NewSymSpell(opts).s
        /\ topCache = NewSymSpell(opts).topCache
        /\ frozen = FALSE
        /\ ret = [NoCall EXCEPT !.opt = AsFunctions(opts)]
        /\ nInsert = 0
        /\ nLookup = 0
        /\ sums = EmptyMap
        /\ log = <<>>
        /\ kernel = NoDistance
        /\ running = NoGoroutines
        /\ build = NoBuild

\* the history of counts after (key, count) was added
Summed(key, count) ==
    MapPut(sums, key, IF key \in DOMAIN sums THEN incrementCount(count, sums[key]) ELSE count)

\* the state after an insertion of (key, count) returned r
StoreReturns(r, op, key, count, used) ==
    /\ s' = r.s
    /\ ret' = [NoCall EXCEPT !.op = op, !.added = r.added, !.err = r.err, !.panic = r.panic]
    /\ nInsert' = used
    /\ sums' = Summed(key, count)
    /\ log' = Append(log, [op |-> op, term |-> key, count |-> count])
    /\ UNCHANGED <<topCache, frozen, nLookup, kernel, running, build>>

\* what a caller of createDictionaryEntry sees
AddTermResult(r) == [s |-> r.s, added |-> r.added, err |-> "nil", panic |-> r.panic]

\* online addTerm; the range over the delete-variants takes any order
AddTermCall(terms, counts, maxTerms) ==
    /\ ~frozen /\ ~ret.panic /\ build.phase # "workers" /\ nInsert < maxTerms
    /\ \E key \in terms, count \in counts :
           \E order \in RangeOrders(editsPrefix(s, key)) :
               StoreReturns(AddTermResult(createDictionaryEntry(s, key, count, order)),
                            "addTerm", key, count, nInsert + 1)

(***************************************************************************)
(* A LoadDictionary call.  It reads the file, then starts shardCount       *)
(* workers and waits for them, then merges their shards.  A step of a      *)
(* worker is one iteration of its loop over the term ids.  While the       *)
(* workers run the call has not returned (ret.op = "loading") and the      *)
(* caller makes no other call.                                             *)
(***************************************************************************)
Workers == 0..(shardCount - 1)

\* the files with one line
OneLine(terms, counts) == {<<[term |-> key, count |-> count]>> : key \in terms, count \in counts}

\* a worker that moves on to the next term id
AdvanceByOne(idx) == idx + 1

\* idx += shardCount
Advance(idx) == idx + shardCount

\* the history of counts after the lines were added
RECURSIVE SummedLines(_, _)
SummedLines(m, lines) ==
    IF lines = <<>> THEN m
    ELSE SummedLines(MapPut(m, Head(lines).term,
                            IF Head(lines).term \in DOMAIN m
                            THEN incrementCount(Head(lines).count, m[Head(lines).term])
                            ELSE Head(lines).count),
                     Tail(lines))

\* the lines as insertions of the log
Logged(lines) ==
    [i \in DOMAIN lines |-> [op |-> "load", term |-> lines[i].term, count |-> lines[i].count]]

\* the state when LoadDictionary returned r before it started the workers;
\* without a file no line was read
LoadReturns(r, corpus, lines, used) ==
    /\ s' = r.s
    /\ ret' = [NoCall EXCEPT !.op = "load", !.added = r.ok, !.err = r.err, !.panic = r.panic]
    /\ nInsert' = IF corpus = "file" THEN used ELSE nInsert
    /\ sums' = IF corpus = "file" THEN SummedLines(sums, lines) ELSE sums
    /\ log' = IF corpus = "file" THEN log \o Logged(lines) ELSE log
    /\ UNCHANGED <<topCache, frozen, nLookup, kernel, running, build>>

\* the state when the scanner loop has returned r and the workers start
WorkersStarted(r, lines, used) ==
    /\ s' = r.s
    /\ ret' = [NoCall EXCEPT !.op = "loading"]
    /\ nInsert' = used
    /\ build' = [phase |-> "workers",
                 shards |-> [w \in Workers |-> EmptyMap],
                 next |-> [w \in Workers |-> w],
                 trace |-> [idx \in 0..(Len(r.s.words) - 1) |-> <<>>],
                 lines |-> lines, before |-> s]
    /\ sums' = SummedLines(sums, lines)
    /\ log' = log \o Logged(lines)
    /\ UNCHANGED <<topCache, frozen, nLookup, kernel, running>>

\* LoadDictionary up to its return or, with a file read to its end, up to
\* the start of the workers; used is the number of insertions made by then
LoadStart(corpora, files, readErrs, used) ==
    /\ ~frozen /\ ~ret.panic /\ build.phase # "workers"
    /\ \E corpus \in corpora, lines \in files, readErr \in readErrs :
           IF LoadRead(s, corpus, lines, readErr).returned
           THEN LoadReturns(LoadRead(s, corpus, lines, readErr), corpus, lines, used)
           ELSE WorkersStarted(LoadRead(s, corpus, lines, readErr), lines, used)

\* shard[del] = append(shard[del], idx) for every del of edits
AppendToShard(shard, dels, idx) ==
    [del \in DOMAIN shard \cup dels |->
        IF del \in dels
        THEN Append(IF del \in DOMAIN shard THEN shard[del] ELSE <<>>, idx)
        ELSE shard[del]]

\* the shard handed to the worker started at offset w: go func(offset, shard)
\* is called with (i, shards[i])
Handed(w) == w

\* the build after one iteration of the loop of the worker started at offset
\* w; trace[idx] is history: the workers that processed the id, in order
Iteration(b, e, w) ==
    [b EXCEPT !.shards[Handed(w)] =
                  AppendToShard(b.shards[Handed(w)], editsPrefix(e, e.words[b.next[w] + 1]),
                                b.next[w]),
              !.next[w] = Advance(b.next[w]),
              !.trace[b.next[w]] = Append(b.trace[b.next[w]], w)]

\* the loop of the worker started at offset w has an iteration to make
Looping(w) == build.phase = "workers" /\ build.next[w] < Len(s.words)

\* one iteration of the loop of one worker
WorkerStep ==
    /\ build.phase = "workers"
    /\ \E w \in Workers : Looping(w) /\ build' = Iteration(build, s, w)
    /\ UNCHANGED <<s, topCache, frozen, ret, nInsert, nLookup, sums, log, kernel, running>>

\* combined[del]: the slices of the shards from shard w on, in shard order
RECURSIVE CombinedShards(_, _, _)
CombinedShards(shards, del, w) ==
    IF w >= shardCount THEN <<>>
    ELSE (IF del \in DOMAIN shards[w] THEN shards[w][del] ELSE <<>>)
         \o CombinedShards(shards, del, w + 1)

RECURSIVE PackShards(_, _, _)
PackShards(e, shards, order) ==
    IF order = <<>> THEN e
    ELSE PackShards([e EXCEPT
                        !.DeletesData = e.DeletesData \o CombinedShards(shards, Head(order), 0),
                        !.DeletesIdx = MapPut(e.DeletesIdx, Head(order),
                            [offset |-> Len(e.DeletesData),
                             length |-> Len(CombinedShards(shards, Head(order), 0))])],
                    shards, Tail(order))

\* LoadDictionary from the return of wg.Wait() to its own return; the range
\* over combined takes any order
MergeStep ==
    /\ build.phase = "workers"
    /\ \A w \in Workers : build.next[w] >= Len(s.words)
    /\ \E order \in RangeOrders(UNION {DOMAIN build.shards[w] : w \in Workers}) :
           s' = [PackShards(s, build.shards, order)
                     EXCEPT !.BelowThresholdWords = [nil |-> TRUE, m |-> EmptyMap]]
    /\ build' = [build EXCEPT !.phase = "done"]
    /\ ret' = [NoCall EXCEPT !.op = "load", !.added = TRUE]
    /\ UNCHANGED <<topCache, frozen, nInsert, nLookup, sums, log, kernel, running>>

\* the state after a Lookup call returned r
LookupReturns(r, phrase, verbosity, k, after) ==
    /\ topCache' = r.topCache
    /\ frozen' = TRUE
    /\ ret' = [NoCall EXCEPT !.op = "lookup", !.phrase = phrase,
                             !.verbosity = verbosity, !.k = k,
                             !.result = r.result, !.err = r.err]
    /\ nLookup' = after
    /\ UNCHANGED <<s, nInsert, sums, log, kernel, running, build>>

\* Lookup; after is the number of lookups made once it returns
LookupWith(phrases, verbosities, ks, after) ==
    \E phrase \in phrases, verbosity \in verbosities, k \in ks :
        /\ ~ret.panic /\ build.phase # "workers"
        /\ LookupReturns(Lookup(s, topCache, phrase, verbosity, k), phrase, verbosity, k, after)

\* the k that the claims about a valid k range over: not negative and not
\* above MaxDictionaryEditDistance.  Lookup itself rejects only the k above
\* it (Lookup's first test); SpecCache calls Lookup with AnyK.
ValidK == 0..s.MaxDictionaryEditDistance

\* every k a caller may pass, one below and one above the valid range included
AnyK == (-1)..(s.MaxDictionaryEditDistance + 1)

(***************************************************************************)
(* Spec: lookups with a valid k on a dictionary of at most MaxTerms        *)
(* terms, built online or loaded from a one-line file that is the whole    *)
(* dictionary.                                                             *)
(***************************************************************************)
Terms == StringsUpTo(MaxTermLen) \ {<<>>}
Phrases == StringsUpTo(MaxLen)

\* the options the engines of the model are constructed with
OptionSets == {Options(1, 2, 1), Options(2, 3, 1)}

Init == Construct(OptionSets)

CreateDictionaryEntry == AddTermCall(Terms, Counts, MaxTerms)

LoadDictionaryCall ==
    nInsert = 0 /\ LoadStart({"file"}, OneLine(Terms, Counts), {FALSE}, MaxTerms)

LookupCall == nLookup < MaxLookups /\ LookupWith(Phrases, Verbosities, ValidK, nLookup + 1)

Next == CreateDictionaryEntry \/ LoadDictionaryCall \/ WorkerStep \/ MergeStep \/ LookupCall

Spec == Init /\ [][Next]_vars

(***************************************************************************)
(* SpecCache: on a dictionary of at most CacheTerms short terms, lookups   *)
(* that can fill the cache (Top, valid k) followed by one lookup of any    *)
(* verbosity and any k.  A lookup of another verbosity changes no state,   *)
(* so the lookups before the last are the Top ones.                        *)
(***************************************************************************)
CacheMaxLen == 2
CacheTerms == 2
CacheLookups == 2

CacheWords == StringsUpTo(CacheMaxLen) \ {<<>>}

InitCache == Construct({Options(1, 2, 1)})

CacheAddTerm == AddTermCall(CacheWords, Counts, CacheTerms)

CacheFill ==
    nLookup < CacheLookups - 1 /\ LookupWith(StringsUpTo(CacheMaxLen), {Top}, ValidK, nLookup + 1)

CacheLookup ==
    nLookup < CacheLookups /\ LookupWith(StringsUpTo(CacheMaxLen), Verbosities, AnyK, CacheLookups)

NextCache == CacheAddTerm \/ CacheFill \/ CacheLookup

SpecCache == InitCache /\ [][NextCache]_vars

(***************************************************************************)
(* SpecStore: every CountThreshold, insertions online and by files, also   *)
(* paths without a file that opens and files whose read fails; then a      *)
(* stored term is looked up exactly.                                       *)
(***************************************************************************)
StoreMaxLen == 2
StoreTerms == 2

StoreWords == StringsUpTo(StoreMaxLen) \ {<<>>}
\* the counts of the insertions; with 2^31 a second insertion of a term
\* takes its count beyond 2^31 or, with 2^31 again, to the saturation of
\* incrementCount
StoreCounts == {Num(0), Num(1), Num(2), Plus(Num(2147483647), Num(1))}

InitStore == Construct({Options(1, 2, c) : c \in {0, 1, 2}})

StoreAddTerm == AddTermCall(StoreWords, StoreCounts, StoreTerms)

StoreLoad ==
    /\ nInsert < StoreTerms
    /\ LoadStart(Corpora, OneLine(StoreWords, StoreCounts), BOOLEAN, nInsert + 1)

StoreLookup == nLookup < 1 /\ LookupWith(DOMAIN s.Words, {All}, {0}, 1)

NextStore == StoreAddTerm \/ StoreLoad \/ WorkerStep \/ MergeStep \/ StoreLookup

SpecStore == InitStore /\ [][NextStore]_vars

(***************************************************************************)
(* Properties of Lookup.  ret holds the last call and what it returned.    *)
(***************************************************************************)
\* the last call was a Lookup with a k of the valid range that returned no error
LookedUp == ret.op = "lookup" /\ ret.err = "nil" /\ ret.k \in ValidK

Items(list) == {list[i] : i \in DOMAIN list}

\* the count the store holds for a term
CountOf(e, term) == e.counts[e.Words[term] + 1]

\* the brute-force oracle: the records of all the terms within k of q
Within(e, q, k) ==
    {SuggestItem(t, Distance(q, t), CountOf(e, t)) :
        t \in {u \in DOMAIN e.Words : Distance(q, u) <= k}}

\* C1: for a query that is not a dictionary term and a valid k, lookup(q, All, k)
\* returns exactly the records (t, distance(q, t), count(t)) of the terms within
\* k of q, each once: none missing, none beyond k, true distances and counts.
C1_AllIsOracle ==
    (LookedUp /\ ret.verbosity = All /\ ret.phrase \notin DOMAIN s.Words)
        => /\ Items(ret.result) = Within(s, ret.phrase, ret.k)
           /\ Len(ret.result) = Cardinality(Within(s, ret.phrase, ret.k))

\* C2: after any earlier lookups on the frozen store, every item a lookup with a
\* valid k returns has distance <= k, and a lookup with k = 0 returns the exact
\* match of the query or nothing.
C2_WithinK ==
    LookedUp
        => /\ \A i \in DOMAIN ret.result : ret.result[i].Distance <= ret.k
           /\ ret.k = 0 => /\ Len(ret.result) <= 1
                           /\ \A i \in DOMAIN ret.result :
                                  /\ ret.result[i].Term = ret.phrase
                                  /\ ret.result[i].Distance = 0

\* C3: a lookup whose k is outside 0..MaxDictionaryEditDistance, above or below,
\* fails with an error, returns nothing and leaves the store and the cache as
\* they were; a lookup whose k is inside the range returns no error.
C3_OutOfRangeRejected ==
    [][(ret'.op = "lookup" /\ nLookup' # nLookup)
          => IF ret'.k \in ValidK
             THEN ret'.err = "nil"
             ELSE /\ ret'.err # "nil"
                  /\ ret'.result = <<>>
                  /\ s' = s
                  /\ topCache' = topCache]_vars

\* C4: lookup(q, Top, k) returns at most one item, be it served from the cache,
\* from an early exit or from the frontier search.
C4_TopAtMostOne ==
    (ret.op = "lookup" /\ ret.err = "nil" /\ ret.verbosity = Top) => Len(ret.result) <= 1

\* a Top lookup of a stored term below FrequencyThreshold, whose slot first held
\* the exact match and then a neighbour found by the frontier search
C4_Witness ==
    /\ LookedUp /\ ret.verbosity = Top /\ ret.k >= 1
    /\ ret.phrase \in DOMAIN s.Words
    /\ Less(CountOf(s, ret.phrase), Num(s.FrequencyThreshold))
    /\ Len(ret.result) = 1
    /\ ret.result[1].Term # ret.phrase
    /\ Len(topCache.ll) = 2

\* history: the distances of the items the search of lookup(phrase, verbosity, k)
\* offers to the accumulator
ObservedAfter(e, k, exactMatch) ==
    IF exactMatch.shouldStop \/ k = 0 THEN exactMatch.cp.observed
    ELSE Search(e, k, exactMatch.cp).observed

ObservedFrom(e, phrase, verbosity, k, cp) ==
    IF cp.phraseLen - k > e.maxLength THEN {}
    ELSE ObservedAfter(e, k, checkExactMatch(e, phrase, verbosity, cp))

Observed(e, phrase, verbosity, k) ==
    ObservedFrom(e, phrase, verbosity, k, acquireCandidateProcessor(k, verbosity, phrase))

\* every item of the list has distance d, the least element of the set seen
AllAtLeastOf(list, seen) ==
    \A i \in DOMAIN list :
        /\ list[i].Distance \in seen
        /\ \A d \in seen : list[i].Distance <= d

\* C5: all the items lookup(q, Closest, k) returns have the same distance, the
\* minimum distance observed during the search, also when q is a stored term
\* below FrequencyThreshold whose exact match is in the accumulator.
C5_ClosestAllMinimal ==
    (LookedUp /\ ret.verbosity = Closest)
        => AllAtLeastOf(ret.result, Observed(s, ret.phrase, Closest, ret.k))

\* C6: the list a lookup returns, for every verbosity, is ordered by
\* non-decreasing distance, and by non-increasing count where distances are equal.
C6_Sorted ==
    (ret.op = "lookup" /\ ret.err = "nil")
        => \A i \in 1..(Len(ret.result) - 1) :
               \/ ret.result[i].Distance < ret.result[i + 1].Distance
               \/ /\ ret.result[i].Distance = ret.result[i + 1].Distance
                  /\ ~Less(ret.result[i].Count, ret.result[i + 1].Count)

\* an All lookup that returned two terms at the same distance, the more
\* frequent one first, and then an item at a greater distance
C6_Witness ==
    /\ LookedUp /\ ret.verbosity = All
    /\ Len(ret.result) >= 3
    /\ ret.result[1].Distance = ret.result[2].Distance
    /\ Less(ret.result[2].Count, ret.result[1].Count)
    /\ ret.result[1].Term # ret.result[2].Term
    /\ ret.result[2].Distance < ret.result[3].Distance

\* C7: for every term of a dictionary built by any insertions, lookup(term, All, 0)
\* contains (term, 0, count) where count is the accumulated count of the term,
\* and no other entry of distance 0.
C7_ExactMatchAccumulated ==
    (LookedUp /\ ret.verbosity = All /\ ret.k = 0 /\ ret.phrase \in DOMAIN s.Words)
        => /\ SuggestItem(ret.phrase, 0, sums[ret.phrase]) \in Items(ret.result)
           /\ Cardinality({i \in DOMAIN ret.result : ret.result[i].Distance = 0}) = 1

\* some other term at distance 1 or 2, within k, is at least FrequencyMultiplier
\* times as frequent as the stored term q
Displaced(e, q, k) ==
    \E t \in DOMAIN e.Words \ {q} :
        /\ Distance(q, t) \in 1..min(2, k)
        /\ ~Less(CountOf(e, t), Times(CountOf(e, q), e.FrequencyMultiplier))

\* C8: when the query is a stored term, k >= 1 and the search is not
\* short-circuited (All, or count below FrequencyThreshold), the exact match is
\* dropped if a neighbour at distance 1 or 2 within k has count >= count x
\* FrequencyMultiplier and is kept otherwise, for Top, Closest and All alike.
C8_ExactMatchDisplacedOnlyByFrequency ==
    (/\ LookedUp /\ ret.k >= 1
     /\ ret.phrase \in DOMAIN s.Words
     /\ (ret.verbosity = All \/ Less(CountOf(s, ret.phrase), Num(s.FrequencyThreshold))))
        => (SuggestItem(ret.phrase, 0, CountOf(s, ret.phrase)) \in Items(ret.result)
                <=> ~Displaced(s, ret.phrase, ret.k))

\* top is empty exactly when all is, and else its item ranks first in all
FirstOf(top, all) ==
    /\ top = <<>> <=> all = <<>>
    /\ top # <<>> => /\ top[1] \in Items(all)
                     /\ \A i \in DOMAIN all : ~SortLess(all[i], top[1])

\* the result of the call on an engine with the same store and an empty cache
Fresh(e, phrase, verbosity, k) ==
    Lookup(e, newTopCache(TopCacheCapacity), phrase, verbosity, k).result

\* C9: from an empty cache, lookup(q, Top, k) is empty exactly when
\* lookup(q, All, k) is empty, and otherwise its item is one that ranks first in
\* lookup(q, All, k) by (distance ascending, count descending).
C9_TopIsFirstOfAll ==
    (LookedUp /\ ret.verbosity = Top)
        => FirstOf(ret.result, Fresh(s, ret.phrase, All, ret.k))

\* the lists hold the same items the same number of times, in an order that
\* differs only between items tied on distance and count
SameUpToTies(a, b) ==
    /\ Len(a) = Len(b)
    /\ \A i \in DOMAIN a :
           /\ i \in DOMAIN b
           /\ a[i].Distance = b[i].Distance
           /\ a[i].Count = b[i].Count
           /\ Cardinality({j \in DOMAIN a : a[j] = a[i]})
                  = Cardinality({j \in DOMAIN b : b[j] = a[i]})

\* C10: over a frozen store the result of lookup(q, verbosity, k) is the same,
\* up to the order of ties, whatever lookups were performed before: it is the
\* result of an engine with the same store that performed none, and a Top
\* lookup answered from the cache equals the uncached one with the same k.
C10_IndependentOfEarlierLookups ==
    LookedUp => SameUpToTies(ret.result, Fresh(s, ret.phrase, ret.verbosity, ret.k))

(***************************************************************************)
(* Order independence.                                                     *)
(***************************************************************************)
\* the permutations of 1..n
Orders(n) == {f \in [1..n -> 1..n] : \A i, j \in 1..n : f[i] = f[j] => i = j}

\* the empty engine with the tunables of e
EmptyLike(e) ==
    NewSymSpell([MaxDictionaryEditDistance |-> e.MaxDictionaryEditDistance,
                 PrefixLength |-> e.PrefixLength,
                 CountThreshold |-> e.CountThreshold,
                 FrequencyThreshold |-> e.FrequencyThreshold,
                 FrequencyMultiplier |-> e.FrequencyMultiplier]).s

\* the stores that the insertions entries[order[i]], i = from..Len(entries),
\* made on e can leave: one for every order in which the range over the
\* delete-variants of each insertion can run
RECURSIVE Rebuilt(_, _, _, _)
Rebuilt(e, entries, order, from) ==
    IF from > Len(entries) THEN {e}
    ELSE UNION {Rebuilt(createDictionaryEntry(e, entries[order[from]].term,
                                              entries[order[from]].count, visit).s,
                        entries, order, from + 1) :
                   visit \in RangeOrders(editsPrefix(e, entries[order[from]].term))}

\* the dictionary was built by addTerm calls only
BuiltOnline == \A i \in DOMAIN log : log[i].op = "addTerm"

\* C11: a dictionary built from any permutation of the same (term, count) pairs,
\* for every CountThreshold and with no count saturating, gives the same result
\* for every lookup.
C11_OrderIndependent ==
    (LookedUp /\ BuiltOnline /\ \A term \in DOMAIN sums : Less(sums[term], maxUint32))
        => \A order \in Orders(Len(log)) :
               \A rebuilt \in Rebuilt(EmptyLike(s), log, order, 1) :
                   Fresh(rebuilt, ret.phrase, ret.verbosity, ret.k) = ret.result

(***************************************************************************)
(* SpecDistance: the edit-distance kernel on all pairs of strings of at    *)
(* most DistMaxLen code points, ASCII and not, every k up to DistMaxK, and *)
(* row buffers that come from the pool with any content.  Each behaviour   *)
(* is one call.                                                            *)
(***************************************************************************)
DistMaxLen == 3
DistMaxK == 3

\* a, b, c and U+00E9
DistAlphabet == {97, 98, 99, 233}

RECURSIVE StringsOver(_, _)
StringsOver(alphabet, n) ==
    IF n = 0 THEN {<<>>}
    ELSE StringsOver(alphabet, n - 1)
            \cup {Append(x, c) : x \in {y \in StringsOver(alphabet, n - 1) : Len(y) = n - 1},
                                 c \in alphabet}

DistStrings == StringsOver(DistAlphabet, DistMaxLen)

\* what the pooled buffers may hold
Fills == {0, 9}

\* DistanceMax with row buffers that hold fill when they come from the pool
DistanceMaxPooled(a, b, maxDistance, fill) ==
    IF isASCII(a) /\ isASCII(b)
    THEN DistanceMaxKernel(Bytes(a), Bytes(b), maxDistance, fill)
    ELSE DistanceMaxKernel(a, b, maxDistance, fill)

InitDistance == Construct({Options(2, 3, 1)})

DistanceCall ==
    /\ kernel.op = "none"
    /\ \E a \in DistStrings, b \in DistStrings :
        /\ kernel' = [op |-> "Distance", a |-> a, b |-> b, k |-> 0, result |-> Distance(a, b)]
        /\ UNCHANGED <<s, topCache, frozen, ret, nInsert, nLookup, sums, log, running, build>>

DistanceMaxCall ==
    /\ kernel.op = "none"
    /\ \E a \in DistStrings, b \in DistStrings, k \in 0..DistMaxK, fill \in Fills :
        /\ kernel' = [op |-> "DistanceMax", a |-> a, b |-> b, k |-> k,
                    result |-> DistanceMaxPooled(a, b, k, fill)]
        /\ UNCHANGED <<s, topCache, frozen, ret, nInsert, nLookup, sums, log, running, build>>

NextDistance == DistanceCall \/ DistanceMaxCall

SpecDistance == InitDistance /\ [][NextDistance]_vars

\* result is d when d <= k, and k + 1 otherwise
BoundedTo(result, d, k) == IF d <= k THEN result = d ELSE result = k + 1

\* C12: for all strings a, b and every k >= 0, DistanceMax(a, b, k) equals
\* Distance(a, b) when that is at most k, and is k + 1 otherwise, in the byte
\* variant and in the code-point variant of the banded kernel.
C12_DistanceMaxIsBoundedDistance ==
    kernel.op = "DistanceMax" => BoundedTo(kernel.result, Distance(kernel.a, kernel.b), kernel.k)

\* a call of each variant whose true distance is within k and at least 2, and so
\* found inside the band
C12_Witness ==
    /\ kernel.op = "DistanceMax"
    /\ kernel.result >= 2 /\ kernel.result <= kernel.k
    /\ Len(kernel.a) = DistMaxLen /\ Len(kernel.b) = DistMaxLen
    /\ ~isASCII(kernel.a)

\* C13: for all strings a and b, Distance(a, a) = 0 and Distance(a, b) =
\* Distance(b, a).
C13_DistanceZeroAndSymmetric ==
    kernel.op = "Distance"
        => /\ kernel.result = Distance(kernel.b, kernel.a)
           /\ kernel.a = kernel.b => kernel.result = 0

\* a call on two different strings of different lengths, at distance 2 or more
C13_Witness ==
    /\ kernel.op = "Distance"
    /\ Len(kernel.a) = DistMaxLen /\ Len(kernel.b) = DistMaxLen - 1
    /\ kernel.result >= 2

\* C14: Distance respects the triangle inequality: for all strings a, b, c,
\* Distance(a, c) <= Distance(a, b) + Distance(b, c).
C14_TriangleInequality ==
    kernel.op = "Distance"
        => \A via \in DistStrings :
               kernel.result <= Distance(kernel.a, via) + Distance(via, kernel.b)

\* the strings one unit-cost edit away from x, of at most maxLen code points:
\* a deletion, a substitution, an insertion or an adjacent transposition
OneEditFrom(x, maxLen) ==
    {DeleteAt(x, i) : i \in 0..(Len(x) - 1)}
      \cup {[x EXCEPT ![i] = c] : i \in 1..Len(x), c \in DistAlphabet}
      \cup {[x EXCEPT ![i] = x[i + 1], ![i + 1] = x[i]] : i \in 1..(Len(x) - 1)}
      \cup (IF Len(x) >= maxLen THEN {}
            ELSE {Slice(x, 0, i) \o <<c>> \o Slice(x, i, Len(x)) :
                      i \in 0..Len(x), c \in DistAlphabet})

\* the least number of unit-cost edits that turn a string of reached into b,
\* plus n; reached holds the strings n edits away from the start
RECURSIVE EditsNeeded(_, _, _, _)
EditsNeeded(reached, b, n, maxLen) ==
    IF b \in reached THEN n
    ELSE EditsNeeded(reached \cup UNION {OneEditFrom(x, maxLen) : x \in reached},
                     b, n + 1, maxLen)

\* C15: Distance(a, b) is the exact Damerau-Levenshtein distance: the minimum
\* number of unit-cost insertions, deletions, substitutions and adjacent
\* transpositions that turn a into b.
C15_ExactDamerauLevenshtein ==
    kernel.op = "Distance"
        => kernel.result = EditsNeeded({kernel.a}, kernel.b, 0,
                                       max(Len(kernel.a), Len(kernel.b)))

(***************************************************************************)
(* SpecUnicode: dictionaries and queries over a and U+00E9, whose UTF-8    *)
(* encoding has two bytes; one lookup on each dictionary.                  *)
(***************************************************************************)
UniMaxLen == 2
UniTerms == 2

UniStrings == StringsOver({97, 233}, UniMaxLen)

InitUnicode == Construct({Options(1, 2, 1)})

UnicodeAddTerm == AddTermCall(UniStrings \ {<<>>}, Counts, UniTerms)

UnicodeLookup == nLookup < 1 /\ LookupWith(UniStrings, Verbosities, ValidK, 1)

NextUnicode == UnicodeAddTerm \/ UnicodeLookup

SpecUnicode == InitUnicode /\ [][NextUnicode]_vars

\* the candidate processor of a lookup that works on code points whatever the phrase
OnCodePoints(cp) == [cp EXCEPT !.unicode = TRUE, !.phraseLen = Len(cp.phrase)]

\* the result of the lookup, from an empty cache, when every length is the
\* code-point length
ByCodePoints(e, phrase, verbosity, k) ==
    Uncached(e, newTopCache(TopCacheCapacity), phrase, verbosity, k,
             OnCodePoints(acquireCandidateProcessor(k, verbosity, phrase))).result

\* C16: every length used by lookup is the code-point length: the result of a
\* lookup equals the result of an implementation that always works on code
\* points, also when the query is pure ASCII and a dictionary term is not.
C16_LengthsAreCodePoints ==
    LookedUp => ret.result = ByCodePoints(s, ret.phrase, ret.verbosity, ret.k)

(***************************************************************************)
(* Properties of the store.                                                *)
(***************************************************************************)
\* the count recorded for a term: in the main store, else in the
\* below-threshold pool, else none
Recorded(e, term) ==
    IF term \in DOMAIN e.Words THEN CountOf(e, term)
    ELSE IF term \in DOMAIN e.BelowThresholdWords.m THEN e.BelowThresholdWords.m[term]
    ELSE Num(0)

\* C17: reinsertion always sums: after every addTerm, for every CountThreshold,
\* the count recorded for a term, in the main store or in the below-threshold
\* pool, is the saturated sum of all the counts added for it, and the count
\* of a stored term never decreases.
C17_ReinsertionSums ==
    [][BuiltOnline'
          => /\ \A term \in DOMAIN sums' : Recorded(s', term) = sums'[term]
             /\ \A term \in DOMAIN s.Words :
                    /\ term \in DOMAIN s'.Words
                    /\ ~Less(CountOf(s', term), CountOf(s, term))]_vars

\* C18: after any addTerm and LoadDictionary calls, for every CountThreshold,
\* term_map[term[i]] = i for every term_id i: no term occupies two term_ids,
\* and the term and count sequences have the same length.
C18_TermMapInvertsTerms ==
    /\ Len(s.words) = Len(s.counts)
    /\ \A i \in DOMAIN s.words :
           /\ s.words[i] \in DOMAIN s.Words
           /\ s.Words[s.words[i]] = i - 1

(***************************************************************************)
(* Concurrent lookups over a frozen store.  Each goroutine makes one       *)
(* Lookup call.  A step of a goroutine is one access to memory the         *)
(* goroutines share: the search (it only reads the store), an access to    *)
(* the map, or one load or one store of a statement of topCache.Get,       *)
(* topCache.Add or the container/list call it makes.  A statement such as  *)
(* e.prev.next = e.next loads e.prev and e.next, in either order, and then *)
(* stores; l.len++ is a load and a store.  The code takes no lock, so the  *)
(* steps of the two goroutines interleave freely.  topCache is kept as the *)
(* cache that a traversal of running.heap shows.                           *)
(***************************************************************************)
ConcMaxLen == 1
ConcTerms == 1
ConcWarms == 2
ConcWords == StringsUpTo(ConcMaxLen)
ConcVerbosities == {Top, All}

\* the k of the lookups: the widest one Lookup accepts
ConcK == {s.MaxDictionaryEditDistance}

\* Lookup up to its first access to the cache or the store
Enter(phrase, verbosity, k) ==
    [Idle EXCEPT !.phrase = phrase, !.verbosity = verbosity, !.k = k,
                 !.pc = IF k > s.MaxDictionaryEditDistance THEN "done"
                        ELSE IF verbosity = Top THEN "get" ELSE "search",
                 !.err = IF k > s.MaxDictionaryEditDistance
                         THEN "distance too large" ELSE "nil"]

\* the statements of List.MoveToFront and List.move
MoveToFrontPcs == {"mtfList", "mtfFront", "mvUnlinkPrev", "mvUnlinkNext",
                   "mvPrev", "mvNext", "mvLinkPrev", "mvLinkNext"}

\* the statements of List.PushFront, List.lazyInit, List.Init and List.insert
PushFrontPcs == {"pfInit", "initNext", "initPrev", "initLen", "pfPrev", "pfNext",
                 "pfLinkPrev", "pfLinkNext", "pfList", "pfLenRead", "pfLenWrite"}

\* the statements of the eviction: Len, Back, Remove, the read of the key
\* and the delete from the map (two goroutines on a cache of at most
\* ConcWarms entries stay below the capacity, so only the test of the length
\* is reached here)
EvictPcs == {"evictLen", "backLen", "backPrev", "rmList", "rmUnlinkPrev",
             "rmUnlinkNext", "rmNext", "rmPrev", "rmListNil", "rmLenRead",
             "rmLenWrite", "evictValue", "mapDelete"}

\* the pointers the statement at pc loads before it stores: e.prev, e.next
\* or l.root.next (front)
Operands(pc) ==
    CASE pc \in {"mvUnlinkPrev", "mvUnlinkNext", "rmUnlinkPrev", "rmUnlinkNext"} ->
             {"prev", "next"}
      [] pc \in {"mvLinkPrev", "pfLinkPrev"} -> {"prev"}
      [] pc \in {"mvLinkNext", "pfLinkNext"} -> {"next"}
      [] pc \in {"mvNext", "pfNext"} -> {"front"}
      [] OTHER -> {}

\* the operands a goroutine with the locals r has yet to load
ToLoad(r) == Operands(r.pc) \ r.loaded

Reads(obj, field) == [obj |-> obj, field |-> field, write |-> FALSE]
Writes(obj, field) == [obj |-> obj, field |-> field, write |-> TRUE]

\* the load of an operand of the statement in hand
ReadsOperand(r, operand) ==
    IF operand = "front" THEN Reads(0, "next") ELSE Reads(r.e, operand)

\* a store through the pointer x; through nil it touches no memory
WritesThrough(x, field) == IF x = -1 THEN {} ELSE {Writes(x, field)}

\* the memory that the next step of a goroutine with the locals r can read or
\* write; object 0 is the sentinel and also the List, the topCache and the
\* store (fields len, cache, store)
Accesses(r) ==
    IF ToLoad(r) # {} THEN {ReadsOperand(r, operand) : operand \in ToLoad(r)}
    ELSE CASE r.pc \in {"get", "add"} -> {Reads(0, "cache")}
           [] r.pc = "search" -> {Reads(0, "store")}
           [] r.pc \in {"mtfList", "rmList"} -> {Reads(r.e, "list")}
           [] r.pc \in {"mtfFront", "pfInit"} -> {Reads(0, "next")}
           [] r.pc \in {"mvUnlinkPrev", "rmUnlinkPrev", "mvLinkPrev", "pfLinkPrev"} ->
                  WritesThrough(r.p, "next")
           [] r.pc \in {"mvUnlinkNext", "rmUnlinkNext", "mvLinkNext", "pfLinkNext"} ->
                  WritesThrough(r.q, "prev")
           [] r.pc \in {"mvPrev", "pfPrev", "rmPrev"} -> {Writes(r.e, "prev")}
           [] r.pc \in {"mvNext", "pfNext", "rmNext"} -> {Writes(r.e, "next")}
           [] r.pc = "initNext" -> {Writes(0, "next")}
           [] r.pc = "initPrev" -> {Writes(0, "prev")}
           [] r.pc \in {"getValue", "evictValue"} -> {Reads(r.e, "Value")}
           [] r.pc = "addValue" -> {Writes(r.e, "Value")}
           [] r.pc \in {"pfList", "rmListNil"} -> {Writes(r.e, "list")}
           [] r.pc \in {"pfLenRead", "evictLen", "backLen", "rmLenRead"} -> {Reads(0, "len")}
           [] r.pc \in {"initLen", "pfLenWrite", "rmLenWrite"} -> {Writes(0, "len")}
           [] r.pc = "backPrev" -> {Reads(0, "prev")}
           [] r.pc \in {"mapWrite", "mapDelete"} -> {Writes(0, "cache")}
           [] OTHER -> {}

\* the memory the next step of goroutine g can read or write
NextAccess(g) == IF running.fatal THEN {} ELSE Accesses(running.g[g])

\* the next steps of g and h can touch the same field, one of them writing
Conflict(g, h, field) ==
    /\ g # h
    /\ \E x \in NextAccess(g), y \in NextAccess(h) :
           /\ x.obj = y.obj /\ x.field = y.field /\ x.field = field
           /\ x.write \/ y.write

\* the fields of the shared memory
Fields == {"cache", "store", "next", "prev", "list", "Value", "len"}

\* the step was made: the goroutine's locals and the memory after it
Then(rec, heap) == [rec |-> rec, heap |-> heap, fatal |-> FALSE]

\* the statement dereferenced nil: the goroutine panics and the process ends
NilDereference(r, h) == [rec |-> r, heap |-> h, fatal |-> TRUE]

\* the statement in hand is done: on to the statement pc, nothing loaded
Goto(r, pc) == [r EXCEPT !.pc = pc, !.loaded = {}, !.p = 0, !.q = 0]

\* the load of one operand of the statement in hand
Load(h, r, operand) ==
    [r EXCEPT !.loaded = r.loaded \cup {operand},
              !.p = IF operand = "prev" THEN h.prev[r.e] ELSE r.p,
              !.q = IF operand = "next" THEN h.next[r.e]
                    ELSE IF operand = "front" THEN h.next[0] ELSE r.q]

\* cacheEntry{key: key, val: val}
Entry(r) == [key |-> r.phrase, val |-> r.item[1]]

\* the statement after c.ll.MoveToFront(ele) in Get and in Add
AfterMove(r) == IF r.after = "get" THEN "getValue" ELSE "addValue"

\* the store of e.prev.next = e.next
UnlinkPrev(h, r, pc) ==
    IF r.p = -1 THEN NilDereference(r, h)
    ELSE Then(Goto(r, pc), SetNext(h, r.p, r.q))

\* the store of e.next.prev = e.prev
UnlinkNext(h, r, pc) ==
    IF r.q = -1 THEN NilDereference(r, h)
    ELSE Then(Goto(r, pc), SetPrev(h, r.q, r.p))

\* the store of e.prev.next = e
LinkPrev(h, r, pc) ==
    IF r.p = -1 THEN NilDereference(r, h)
    ELSE Then(Goto(r, pc), SetNext(h, r.p, r.e))

\* the store of e.next.prev = e
LinkNext(h, r, pc) ==
    IF r.q = -1 THEN NilDereference(r, h)
    ELSE Then(Goto(r, pc), SetPrev(h, r.q, r.e))

\* insertValue(v, &l.root): e := &Element{Value: v}, in hand for insert
Insert(h, r) ==
    Then([Goto(r, "pfPrev") EXCEPT !.e = Len(h.Value) + 1], Allocated(h, Entry(r)))

\* the step of a goroutine with the locals r on the memory h once the
\* operands of its statement are loaded: the store of the statement, or the
\* whole statement when it makes one access
Store(h, r) ==
    CASE r.pc \in {"get", "add"} ->
             \* ele, ok := c.cache[key]
             Then(IF r.phrase \in DOMAIN h.cache
                  THEN [r EXCEPT !.pc = "mtfList", !.e = h.cache[r.phrase], !.after = r.pc]
                  ELSE Goto(r, IF r.pc = "get" THEN "search" ELSE "pfInit"), h)
      \* MoveToFront: if e.list != l || l.root.next == e { return }
      [] r.pc = "mtfList" -> Then(Goto(r, IF h.list[r.e] THEN "mtfFront" ELSE AfterMove(r)), h)
      [] r.pc = "mtfFront" ->
             Then(Goto(r, IF h.next[0] = r.e THEN AfterMove(r) ELSE "mvUnlinkPrev"), h)
      \* move(e, &l.root)
      [] r.pc = "mvUnlinkPrev" -> UnlinkPrev(h, r, "mvUnlinkNext")
      [] r.pc = "mvUnlinkNext" -> UnlinkNext(h, r, "mvPrev")
      [] r.pc = "mvPrev" -> Then(Goto(r, "mvNext"), SetPrev(h, r.e, 0))
      [] r.pc = "mvNext" -> Then(Goto(r, "mvLinkPrev"), SetNext(h, r.e, r.q))
      [] r.pc = "mvLinkPrev" -> LinkPrev(h, r, "mvLinkNext")
      [] r.pc = "mvLinkNext" -> LinkNext(h, r, AfterMove(r))
      \* Get: return ele.Value.(cacheEntry).val, true
      [] r.pc = "getValue" ->
             Then([r EXCEPT !.pc = "done", !.result = <<h.Value[r.e].val>>], h)
      \* Add: ele.Value = cacheEntry{key: key, val: val}
      [] r.pc = "addValue" -> Then(Goto(r, "done"), [h EXCEPT !.Value[r.e] = Entry(r)])
      \* PushFront: lazyInit: if l.root.next == nil { l.Init() }
      [] r.pc = "pfInit" -> IF h.next[0] = -1 THEN Then(Goto(r, "initNext"), h) ELSE Insert(h, r)
      \* Init: l.root.next = &l.root; l.root.prev = &l.root; l.len = 0
      [] r.pc = "initNext" -> Then(Goto(r, "initPrev"), SetNext(h, 0, 0))
      [] r.pc = "initPrev" -> Then(Goto(r, "initLen"), SetPrev(h, 0, 0))
      [] r.pc = "initLen" -> Insert([h EXCEPT !.len = 0], r)
      \* insert(e, &l.root)
      [] r.pc = "pfPrev" -> Then(Goto(r, "pfNext"), SetPrev(h, r.e, 0))
      [] r.pc = "pfNext" -> Then(Goto(r, "pfLinkPrev"), SetNext(h, r.e, r.q))
      [] r.pc = "pfLinkPrev" -> LinkPrev(h, r, "pfLinkNext")
      [] r.pc = "pfLinkNext" -> LinkNext(h, r, "pfList")
      [] r.pc = "pfList" -> Then(Goto(r, "pfLenRead"), [h EXCEPT !.list[r.e] = TRUE])
      [] r.pc = "pfLenRead" -> Then([r EXCEPT !.pc = "pfLenWrite", !.n = h.len], h)
      [] r.pc = "pfLenWrite" -> Then(Goto(r, "mapWrite"), [h EXCEPT !.len = r.n + 1])
      \* c.cache[key] = ele
      [] r.pc = "mapWrite" ->
             Then(Goto(r, "evictLen"), [h EXCEPT !.cache = MapPut(h.cache, r.phrase, r.e)])
      \* if c.ll.Len() > c.capacity
      [] r.pc = "evictLen" ->
             Then(Goto(r, IF h.len > h.capacity THEN "backLen" ELSE "done"), h)
      \* Back: if l.len == 0 { return nil }; return l.root.prev
      [] r.pc = "backLen" -> Then(Goto(r, IF h.len = 0 THEN "done" ELSE "backPrev"), h)
      \* if last := c.ll.Back(); last != nil
      [] r.pc = "backPrev" ->
             Then(IF h.prev[0] = -1 THEN Goto(r, "done")
                  ELSE [r EXCEPT !.pc = "rmList", !.e = h.prev[0]], h)
      \* Remove: if e.list == l { l.remove(e) }; the sentinel's list is nil
      [] r.pc = "rmList" ->
             Then(Goto(r, IF r.e # 0 /\ h.list[r.e] THEN "rmUnlinkPrev" ELSE "evictValue"), h)
      [] r.pc = "rmUnlinkPrev" -> UnlinkPrev(h, r, "rmUnlinkNext")
      [] r.pc = "rmUnlinkNext" -> UnlinkNext(h, r, "rmNext")
      [] r.pc = "rmNext" -> Then(Goto(r, "rmPrev"), SetNext(h, r.e, -1))
      [] r.pc = "rmPrev" -> Then(Goto(r, "rmListNil"), SetPrev(h, r.e, -1))
      [] r.pc = "rmListNil" -> Then(Goto(r, "rmLenRead"), [h EXCEPT !.list[r.e] = FALSE])
      [] r.pc = "rmLenRead" -> Then([r EXCEPT !.pc = "rmLenWrite", !.n = h.len], h)
      [] r.pc = "rmLenWrite" -> Then(Goto(r, "evictValue"), [h EXCEPT !.len = r.n - 1])
      \* entry := last.Value.(cacheEntry): the sentinel's Value is nil, a panic
      [] r.pc = "evictValue" ->
             IF r.e = 0 THEN NilDereference(r, h)
             ELSE Then([r EXCEPT !.pc = "mapDelete", !.key = <<h.Value[r.e].key>>], h)
      \* delete(c.cache, entry.key)
      [] r.pc = "mapDelete" ->
             Then(Goto(r, "done"), [h EXCEPT !.cache = MapDelete(h.cache, r.key[1])])

\* the steps a goroutine with the locals r can make next on the memory h: the
\* load of an operand it has yet to load, whichever, and then the store
Exec(h, r) ==
    IF ToLoad(r) # {} THEN {Then(Load(h, r, operand), h) : operand \in ToLoad(r)}
    ELSE {Store(h, r)}

\* goroutine g has executed a statement with the outcome x
Resume(g, x) ==
    /\ running' = [running EXCEPT !.g[g] = x.rec, !.heap = x.heap, !.fatal = x.fatal]
    /\ topCache' = CacheOf(x.heap)
    /\ UNCHANGED <<s, frozen, ret, nInsert, nLookup, sums, log, kernel, build>>

\* goroutine g is at one of the statements pcs
At(g, pcs) == ~running.fatal /\ running.g[g].pc \in pcs

\* goroutine g makes its next step
Executed(g) == \E x \in Exec(running.heap, running.g[g]) : Resume(g, x)

ConcAddTerm == running = NoGoroutines /\ AddTermCall(ConcWords, {Num(1)}, ConcTerms)

\* a lookup made before the goroutines start
ConcWarm ==
    /\ running = NoGoroutines /\ nLookup < ConcWarms
    /\ LookupWith(ConcWords, {Top}, ConcK, nLookup + 1)

\* both goroutines call Lookup
GoLookups ==
    /\ running = NoGoroutines /\ ~ret.panic
    /\ \E calls \in [Goroutines -> ConcWords \X ConcVerbosities \X ConcK] :
           running' = [start |-> topCache, fatal |-> FALSE, heap |-> HeapOf(topCache),
                       g |-> [i \in Goroutines |->
                                  Enter(calls[i][1], calls[i][2], calls[i][3])]]
    /\ frozen' = TRUE
    /\ UNCHANGED <<s, topCache, ret, nInsert, nLookup, sums, log, kernel, build>>

\* topCache.Get: ele, ok := c.cache[key]
GetStep == \E g \in Goroutines : At(g, {"get"}) /\ Executed(g)

\* c.ll.MoveToFront(ele), in Get and in Add
MoveToFrontStep == \E g \in Goroutines : At(g, MoveToFrontPcs) /\ Executed(g)

\* topCache.Get on a hit: the read of ele.Value and the return of Lookup
GetValueStep == \E g \in Goroutines : At(g, {"getValue"}) /\ Executed(g)

\* the locals of r after the search returned x over a cache of its own: the
\* entry of that cache is the item Lookup hands to topCache.Add
Searched(r, x) ==
    [r EXCEPT !.pc = IF x.topCache.ll # <<>> THEN "add" ELSE "done",
              !.result = x.result,
              !.item = IF x.topCache.ll # <<>> THEN <<x.topCache.ll[1].val>> ELSE <<>>]

\* Lookup from acquireCandidateProcessor to the sorted result
SearchStep ==
    \E g \in Goroutines :
           /\ At(g, {"search"})
           /\ Resume(g, Then(Searched(running.g[g],
                                      Uncached(s, newTopCache(TopCacheCapacity),
                                               running.g[g].phrase, running.g[g].verbosity,
                                               running.g[g].k,
                                               acquireCandidateProcessor(running.g[g].k,
                                                   running.g[g].verbosity, running.g[g].phrase))),
                             running.heap))

\* topCache.Add: ele, ok := c.cache[key]
AddStep == \E g \in Goroutines : At(g, {"add"}) /\ Executed(g)

\* topCache.Add on a present key: the write of ele.Value
AddValueStep == \E g \in Goroutines : At(g, {"addValue"}) /\ Executed(g)

\* topCache.Add on an absent key: ele := c.ll.PushFront(...)
PushFrontStep == \E g \in Goroutines : At(g, PushFrontPcs) /\ Executed(g)

\* topCache.Add on an absent key: c.cache[key] = ele
MapWriteStep == \E g \in Goroutines : At(g, {"mapWrite"}) /\ Executed(g)

\* topCache.Add on an absent key: the test of the length and the eviction
EvictStep == \E g \in Goroutines : At(g, EvictPcs) /\ Executed(g)

\* an access to the map while another goroutine writes it: the runtime may
\* detect it and end the process
FatalStep ==
    /\ ~running.fatal
    /\ \E g, h \in Goroutines : Conflict(g, h, "cache")
    /\ running' = [running EXCEPT !.fatal = TRUE]
    /\ UNCHANGED <<s, topCache, frozen, ret, nInsert, nLookup, sums, log, kernel, build>>

InitConcurrent == Construct({Options(1, 2, 1)})

NextConcurrent ==
    \/ ConcAddTerm
    \/ ConcWarm
    \/ GoLookups
    \/ GetStep
    \/ MoveToFrontStep
    \/ GetValueStep
    \/ SearchStep
    \/ AddStep
    \/ AddValueStep
    \/ PushFrontStep
    \/ MapWriteStep
    \/ EvictStep
    \/ FatalStep

SpecConcurrent == InitConcurrent /\ [][NextConcurrent]_vars

\* two goroutines are about to touch the same memory, one of them writing,
\* with nothing that orders the two accesses
DataRace == \E g, h \in Goroutines, field \in Fields : Conflict(g, h, field)

AllReturned == \A g \in Goroutines : running.g[g].pc = "done"

\* the map and the recency list hold the same keys, once each, within capacity
CacheConsistent(c) ==
    /\ Len(c.ll) <= c.capacity
    /\ {c.ll[i].key : i \in DOMAIN c.ll} = c.cache
    /\ \A i, j \in DOMAIN c.ll : c.ll[i].key = c.ll[j].key => i = j

\* what goroutine g's call returns when it runs alone on the cache c
Alone(g, c) == Lookup(s, c, running.g[g].phrase, running.g[g].verbosity, running.g[g].k)

Returned(g, r) == running.g[g].result = r.result /\ running.g[g].err = r.err

\* the calls returned what they return when first runs before second
InOrder(first, second) ==
    /\ Returned(first, Alone(first, running.start))
    /\ Returned(second, Alone(second, Alone(first, running.start).topCache))

Serializable == InOrder(1, 2) \/ InOrder(2, 1)

\* C19: for every interleaving of concurrent lookups over a frozen store, no
\* two calls access shared engine state unsynchronised with one of them
\* writing, the cache stays consistent (map and recency list hold the same
\* keys, size within capacity), and each call returns what it returns in
\* some sequential order.
C19_ConcurrentLookupsSafe ==
    /\ ~DataRace
    /\ ~running.fatal
    /\ AllReturned => CacheConsistent(topCache) /\ Serializable

(***************************************************************************)
(* Construction from option functions.                                     *)
(***************************************************************************)
OptMaxFunctions == 2
OptValues == (-1)..3
OptFields == {"MaxDictionaryEditDistance", "PrefixLength", "CountThreshold",
              "FrequencyThreshold", "FrequencyMultiplier"}
OptFunctions ==
    {With(field, value) : field \in OptFields, value \in OptValues}
        \cup {WithSmartFrequencyCorrection, WithStrictFrequencyCorrection,
              WithLenientFrequencyCorrection, WithUnreadField}
OptLists == UNION {[1..n -> OptFunctions] : n \in 0..OptMaxFunctions}

\* the nil pointer NewSymSpell returns with an error
NilPointer == [nil |-> TRUE]

\* the state after NewSymSpell(opt...) returned r
Constructed(r, opt) ==
    /\ s = IF r.err = "nil" THEN r.s ELSE NilPointer
    /\ topCache = IF r.err = "nil" THEN r.topCache ELSE NilPointer
    /\ frozen = FALSE
    /\ ret = [NoCall EXCEPT !.err = r.err, !.opt = opt]
    /\ nInsert = 0
    /\ nLookup = 0
    /\ sums = EmptyMap
    /\ log = <<>>
    /\ kernel = NoDistance
    /\ running = NoGoroutines
    /\ build = NoBuild

InitOptions == \E opt \in OptLists : Constructed(NewSymSpell(ApplyAll(DefaultOptions, opt)), opt)

OptionsAddTerm ==
    /\ ret.err = "nil" /\ s # NilPointer
    /\ AddTermCall(StringsUpTo(1), Counts, 1)

OptionsLookup ==
    /\ ret.err = "nil" /\ s # NilPointer /\ nLookup < 1
    /\ LookupWith(StringsUpTo(1), {Top}, {0, 1}, 1)

NextOptions == OptionsAddTerm \/ OptionsLookup

SpecOptions == InitOptions /\ [][NextOptions]_vars

\* the value the option functions opt request for field: that of the last
\* function that sets it, the default when none does
RECURSIVE Requested(_, _)
Requested(opt, field) ==
    IF opt = <<>> THEN DefaultOptions[field]
    ELSE IF field \in DOMAIN opt[Len(opt)] THEN opt[Len(opt)][field]
    ELSE Requested(SubSeq(opt, 1, Len(opt) - 1), field)

ValidOptions(opt) ==
    /\ Requested(opt, "MaxDictionaryEditDistance") >= 0
    /\ Requested(opt, "PrefixLength") >= 1
    /\ Requested(opt, "PrefixLength") > Requested(opt, "MaxDictionaryEditDistance")
    /\ Requested(opt, "CountThreshold") >= 0
    /\ Requested(opt, "FrequencyThreshold") >= 0
    /\ Requested(opt, "FrequencyMultiplier") > 1

EmptyEngine(e, c) ==
    /\ e.Words = EmptyMap /\ e.words = <<>> /\ e.counts = <<>>
    /\ e.BelowThresholdWords.m = EmptyMap /\ ~e.BelowThresholdWords.nil
    /\ e.DeletesIdx = EmptyMap /\ e.DeletesData = <<>>
    /\ e.maxLength = 0
    /\ c.ll = <<>> /\ c.cache = {}

\* C20: NewSymSpell returns an error and no engine exactly when the options,
\* after the option functions are applied in order to the defaults, violate
\* MaxDictionaryEditDistance >= 0, PrefixLength >= 1, PrefixLength >
\* MaxDictionaryEditDistance, CountThreshold >= 0, FrequencyThreshold >= 0
\* or FrequencyMultiplier > 1; otherwise the engine is empty and carries
\* exactly those tunables.
C20_ConstructionValidates ==
    ret.op = "new" =>
        /\ ret.err # "nil" <=> ~ValidOptions(ret.opt)
        /\ ret.err # "nil" => s = NilPointer /\ topCache = NilPointer
        /\ ret.err = "nil" =>
               /\ EmptyEngine(s, topCache)
               /\ \A field \in OptFields : s[field] = Requested(ret.opt, field)

\* two option functions set the prefix length; the second, applied last,
\* makes it no greater than the default edit distance
C20_Witness ==
    /\ ret.op = "new"
    /\ ret.opt = <<With("PrefixLength", 3), With("PrefixLength", 2)>>
    /\ ret.err = "prefixLength must be greater than maxDictionaryEditDistance"
    /\ s = NilPointer

(***************************************************************************)
(* Delete enumeration on its own: editsPrefix for every configuration.     *)
(***************************************************************************)
EditsMaxLen == 4
EditsKeys == StringsUpTo(EditsMaxLen)
EditsOptions == {Options(0, 1, 1), Options(0, 2, 1), Options(1, 2, 1),
                 Options(1, 3, 1), Options(2, 3, 1), Options(2, 4, 1)}

InitEdits == Construct(EditsOptions)

EditsPrefixCall ==
    /\ kernel.op = "none"
    /\ \E key \in EditsKeys :
           kernel' = [NoDistance EXCEPT !.op = "editsPrefix", !.a = key,
                                        !.result = editsPrefix(s, key)]
    /\ UNCHANGED <<s, topCache, frozen, ret, nInsert, nLookup, sums, log, running, build>>

NextEdits == EditsPrefixCall

SpecEdits == InitEdits /\ [][NextEdits]_vars

\* the strings obtained from x by deleting at most n code points
RECURSIVE DeletesWithin(_, _)
DeletesWithin(x, n) ==
    IF n = 0 THEN {x}
    ELSE {x} \cup UNION {DeletesWithin(DeleteAt(x, i), n - 1) : i \in 0..(Len(x) - 1)}

RECURSIVE Binomial(_, _)
Binomial(n, k) ==
    IF k = 0 THEN 1 ELSE IF n = 0 THEN 0
    ELSE Binomial(n - 1, k - 1) + Binomial(n - 1, k)

RECURSIVE BinomialSum(_, _)
BinomialSum(p, k) == IF k = 0 THEN 1 ELSE Binomial(p, k) + BinomialSum(p, k - 1)

\* the first PrefixLength code points of key
Truncated(e, key) == Slice(key, 0, min(Len(key), e.PrefixLength))

\* C21: for every key and valid configuration, MaxDictionaryEditDistance = 0
\* included, editsPrefix(key) is exactly the set of strings obtained by
\* deleting at most MaxDictionaryEditDistance code points from the first
\* PrefixLength code points of key: it holds the truncated key, holds the
\* empty string iff the key has at most MaxDictionaryEditDistance code
\* points, and has at most C(p,0)+...+C(p,k) elements.
C21_EditsPrefixIsBoundedDeletes ==
    kernel.op = "editsPrefix" =>
        /\ kernel.result = DeletesWithin(Truncated(s, kernel.a), s.MaxDictionaryEditDistance)
        /\ Truncated(s, kernel.a) \in kernel.result
        /\ <<>> \in kernel.result <=> Len(kernel.a) <= s.MaxDictionaryEditDistance
        /\ Cardinality(kernel.result) <=
               BinomialSum(Len(Truncated(s, kernel.a)), s.MaxDictionaryEditDistance)

(***************************************************************************)
(* Properties of the delete-index.                                         *)
(***************************************************************************)
\* the positions of DeletesData that the run of variant v occupies
RunPositions(e, v) ==
    (e.DeletesIdx[v].offset + 1)..(e.DeletesIdx[v].offset + e.DeletesIdx[v].length)

\* the posting run of variant v: DeletesData[offset : offset+length]
Run(e, v) ==
    IF v \in DOMAIN e.DeletesIdx
    THEN [i \in 1..e.DeletesIdx[v].length |-> e.DeletesData[e.DeletesIdx[v].offset + i]]
    ELSE <<>>

WellFormed(e) ==
    /\ \A v \in DOMAIN e.DeletesIdx :
           /\ e.DeletesIdx[v].offset + e.DeletesIdx[v].length <= Len(e.DeletesData)
           /\ \A i \in RunPositions(e, v) :
                  /\ e.DeletesData[i] < Len(e.words)
                  /\ v \in editsPrefix(e, e.words[e.DeletesData[i] + 1])
    /\ \A v, w \in DOMAIN e.DeletesIdx :
           v # w => RunPositions(e, v) \cap RunPositions(e, w) = {}

\* the index after is the index before with id appended to the run of each
\* delete-variant of key, and every other run as it was
Extended(before, after, key, id) ==
    /\ DOMAIN after.DeletesIdx = DOMAIN before.DeletesIdx \cup editsPrefix(before, key)
    /\ \A v \in DOMAIN after.DeletesIdx :
           Run(after, v) = IF v \in editsPrefix(before, key)
                           THEN Append(Run(before, v), id) ELSE Run(before, v)

\* C22: after any sequence of online addTerm and LoadDictionary calls the
\* packed delete-index is well formed: every run lies inside the postings
\* array, the runs of two variants do not overlap, every id in the run of v
\* is a term_id whose term has v among its delete-variants; an online append
\* of a new term adds exactly its id to the run of each of its variants and
\* leaves the ids of every other run unchanged.
C22_DeleteIndexWellFormed ==
    [][/\ ~ret'.panic => WellFormed(s')
       /\ (ret'.op = "addTerm" /\ ret'.added /\ s' # s) =>
              Extended(s, s', s'.words[Len(s'.words)], Len(s'.words) - 1)]_vars

\* two indexes with the same variants and the same run for each
SameRuns(e, f) ==
    /\ DOMAIN e.DeletesIdx = DOMAIN f.DeletesIdx
    /\ \A v \in DOMAIN e.DeletesIdx : Run(e, v) = Run(f, v)

\* Lemma: an insertion leaves the runs that the ascending range leaves, an
\* addTerm call and a LoadDictionary call alike.  The order of a map range
\* moves runs inside DeletesData and changes none, so a lookup, which reads
\* runs only, does not depend on it.
RunsIgnoreRangeOrder ==
    [][/\ (ret'.op = "addTerm" /\ ~ret'.panic) =>
              SameRuns(s', createDictionaryEntry(s, log'[Len(log')].term, log'[Len(log')].count,
                               RangeOrder(editsPrefix(s, log'[Len(log')].term))).s)
       /\ (build.phase = "workers" /\ build'.phase = "done") =>
              SameRuns(s', LoadDictionary(build.before, "file", build.lines, FALSE,
                               RangeOrder(LoadVariants(build.before, build.lines))).s)]_vars

\* an online addTerm after a LoadDictionary put a second id into a run that
\* has another run behind it
C22_Witness ==
    /\ ret.op = "addTerm" /\ ret.added
    /\ Len(log) = 2 /\ log[1].op = "load"
    /\ \E v, w \in DOMAIN s.DeletesIdx :
           /\ s.DeletesIdx[v].length = 2
           /\ s.DeletesIdx[w].offset >= s.DeletesIdx[v].offset + 2

(***************************************************************************)
(* The parallel index build of LoadDictionary.  A step of a worker is one  *)
(* iteration of its loop over the term ids; the main goroutine merges the  *)
(* shards once every worker has returned.                                  *)
(***************************************************************************)
\* the short files: up to BuildShortLines lines over the terms of at most
\* BuildShortLen code points
BuildShortLen == 2
BuildShortLines == 2
\* the long file: BuildLines lines, one more than there are workers, with the
\* first BuildLines terms of at most BuildMaxLen code points
BuildMaxLen == 4
BuildLines == 17
BuildWords == StringsUpTo(BuildShortLen) \ {<<>>}
ShortFiles ==
    UNION {[1..n -> [term : BuildWords, count : {Num(1)}]] : n \in 1..BuildShortLines}
LongFile ==
    [i \in 1..BuildLines |->
        [term |-> RangeOrder(StringsUpTo(BuildMaxLen) \ {<<>>})[i], count |-> Num(1)]]
BuildFiles == ShortFiles \cup {LongFile}

InitBuild == Construct({Options(1, 2, 1)})

BuildAddTerm == build.phase = "none" /\ AddTermCall(BuildWords, {Num(1)}, 1)

\* one LoadDictionary call, of a file that is read to its end and leaves the
\* store with at most BuildLines terms
LoadBegin ==
    /\ build.phase = "none"
    /\ LoadStart({"file"}, {f \in BuildFiles : Len(s.words) + Len(f) <= BuildLines},
                 {FALSE}, BuildLines)

NextBuild == BuildAddTerm \/ LoadBegin \/ WorkerStep \/ MergeStep

SpecBuild == InitBuild /\ [][NextBuild]_vars

\* the shards in which the build after differs from the build before
Changed(before, after) == {v \in Workers : after.shards[v] # before.shards[v]}

\* the shards the next iteration of worker w writes: those its iteration
\* leaves changed
ShardsWritten(w) == IF Looping(w) THEN Changed(build, Iteration(build, s, w)) ELSE {}

\* the shards the next iteration of worker w reads: append reads the slice
\* of the shard the worker was handed
ShardsRead(w) == IF Looping(w) THEN {Handed(w)} ELSE {}

\* the workers, each with the shards its next iteration writes
Writers == {[worker |-> w, shards |-> ShardsWritten(w)] : w \in Workers}

\* two workers whose next iterations touch the same shard, one writing it
RaceOver(writers) ==
    \E x, y \in writers :
        x.worker # y.worker /\ x.shards \cap (y.shards \cup ShardsRead(y.worker)) # {}

BuildRace == RaceOver(Writers)

\* every worker with an iteration to make writes its own shard and no other
OwnShardOnly(writers) == \A x \in writers : Looping(x.worker) => x.shards = {x.worker}

\* the ids of the run of v, as a set
Postings(e, v) == {Run(e, v)[i] : i \in DOMAIN Run(e, v)}

\* the ids whose term has v among its delete-variants
Holders(e, v) == {i \in 0..(Len(e.words) - 1) : v \in editsPrefix(e, e.words[i + 1])}

\* the build of the same lines by one goroutine (any order of the final range
\* gives the same posting sets; the ascending one is taken)
Sequential(e, lines) ==
    LoadDictionary(e, "file", lines, FALSE, RangeOrder(LoadVariants(e, lines)))

\* two indexes with the same variants and the same posting set for each
SamePostings(e, f) ==
    /\ DOMAIN e.DeletesIdx = DOMAIN f.DeletesIdx
    /\ \A v \in DOMAIN e.DeletesIdx : Postings(e, v) = Postings(f, v)

\* C23: in the parallel index build each term_id is processed by exactly one
\* of the 16 workers (the one whose offset is the id mod 16), each worker
\* writes only its own shard, and for every interleaving the merged index
\* gives, for every variant v, a run holding each id i with v in
\* deletes(term[i]) exactly once: the posting sets of a sequential build.
C23_ParallelBuildIsSequential ==
    /\ ~BuildRace
    /\ OwnShardOnly(Writers)
    /\ \A idx \in DOMAIN build.trace :
           /\ Len(build.trace[idx]) <= 1
           /\ \A i \in DOMAIN build.trace[idx] : build.trace[idx][i] = idx % shardCount
    /\ build.phase = "done" =>
           /\ DOMAIN build.trace = 0..(Len(s.words) - 1)
           /\ \A idx \in DOMAIN build.trace : Len(build.trace[idx]) = 1
           /\ \A v \in DOMAIN s.DeletesIdx :
                  /\ Postings(s, v) = Holders(s, v)
                  /\ Len(Run(s, v)) = Cardinality(Holders(s, v))
           /\ SamePostings(s, Sequential(build.before, build.lines).s)

\* a build of more terms than there are workers: the worker started at
\* offset 0 made a second iteration, for the id shardCount, and a run of the
\* merged index holds its two ids followed by ids of other shards
C23_Witness ==
    /\ build.phase = "done"
    /\ Len(s.words) > shardCount
    /\ build.trace[shardCount] = <<0>>
    /\ \E v \in DOMAIN s.DeletesIdx :
           /\ v \in DOMAIN build.shards[0]
           /\ build.shards[0][v] = <<0, shardCount>>
           /\ Len(Run(s, v)) > 2
           /\ Run(s, v)[1] = 0 /\ Run(s, v)[2] = shardCount

(***************************************************************************)
(* Properties of the below-threshold pool.                                 *)
(***************************************************************************)
\* C24: with CountThreshold > 1, after any sequence of addTerm calls a term
\* is in the below-threshold pool only while its accumulated count is below
\* CountThreshold and it is not in the main store: it is promoted when it
\* reaches the threshold, so no term is in both the pool and the main store,
\* and every main-store count is >= CountThreshold.
C24_PoolUntilThreshold ==
    (s.CountThreshold > 1 /\ BuiltOnline) =>
        /\ \A term \in DOMAIN s.BelowThresholdWords.m :
               /\ Less(sums[term], Num(s.CountThreshold))
               /\ term \notin DOMAIN s.Words
        /\ \A term \in DOMAIN sums :
               ~Less(sums[term], Num(s.CountThreshold)) => term \in DOMAIN s.Words
        /\ \A i \in DOMAIN s.counts : ~Less(s.counts[i], Num(s.CountThreshold))

\* C25: once LoadDictionary has completed the below-threshold pool is
\* cleared and no later operation touches it: a later online addTerm or a
\* second LoadDictionary, for any CountThreshold and any count, completes
\* normally without writing to the pool.
C25_PoolUntouchedAfterLoad ==
    [][/\ (ret'.op = "load" /\ ret'.added) =>
              s'.BelowThresholdWords = [nil |-> TRUE, m |-> EmptyMap]
       /\ s.BelowThresholdWords.nil =>
              /\ ~ret'.panic
              /\ s'.BelowThresholdWords = s.BelowThresholdWords]_vars

(***************************************************************************)
(* The top-result cache on its own: sequences of Get and Add on a cache    *)
(* of a small capacity.                                                    *)
(***************************************************************************)
LruCapacity == 2
LruCalls == 4
LruKeys == StringsUpTo(1)
LruVals == {SuggestItem(<<97>>, 0, Num(1)), SuggestItem(<<98>>, 1, Num(2))}

InitLru ==
    /\ s = NewSymSpell(Options(1, 2, 1)).s
    /\ topCache = newTopCache(LruCapacity)
    /\ frozen = FALSE
    /\ ret = NoCall
    /\ nInsert = 0
    /\ nLookup = 0
    /\ sums = EmptyMap
    /\ log = <<>>
    /\ kernel = NoDistance
    /\ running = NoGoroutines
    /\ build = NoBuild

\* the state after topCache.Get(key) returned r
GetReturns(r, key) ==
    /\ topCache' = r.c
    /\ kernel' = [NoDistance EXCEPT !.op = "Get", !.a = key, !.result = r.val]
    /\ log' = Append(log, [op |-> "Get", term |-> key, count |-> r.val, hit |-> r.ok])
    /\ UNCHANGED <<s, frozen, ret, nInsert, nLookup, sums, running, build>>

LruGet ==
    /\ Len(log) < LruCalls
    /\ \E key \in LruKeys : GetReturns(CacheGet(topCache, key), key)

LruAdd ==
    /\ Len(log) < LruCalls
    /\ \E key \in LruKeys, val \in LruVals :
           /\ topCache' = CacheAdd(topCache, key, val)
           /\ kernel' = [NoDistance EXCEPT !.op = "Add", !.a = key, !.result = <<val>>]
           /\ log' = Append(log, [op |-> "Add", term |-> key, count |-> <<val>>, hit |-> TRUE])
           /\ UNCHANGED <<s, frozen, ret, nInsert, nLookup, sums, running, build>>

NextLru == LruGet \/ LruAdd

SpecLru == InitLru /\ [][NextLru]_vars

\* the calls that used key: its Adds and the Gets that hit
Uses(key) == {i \in DOMAIN log : log[i].term = key /\ log[i].hit}

\* the position in the history of the latest use of key, 0 when there is none
LastUse(key) == IF Uses(key) = {} THEN 0 ELSE CHOOSE i \in Uses(key) : \A j \in Uses(key) : j <= i

Adds(key) == {i \in DOMAIN log : log[i].term = key /\ log[i].op = "Add"}

\* the value of the latest Add of key
LatestAdd(key) == log[CHOOSE i \in Adds(key) : \A j \in Adds(key) : j <= i].count

\* C26: after any sequence of Get and Add calls the cache holds at most
\* capacity entries; the entry evicted when a new key exceeds the capacity
\* is the least recently used one, the key whose latest Get hit or Add is
\* the oldest; Get of a key that was added and not evicted returns the
\* value of its latest Add.
C26_LeastRecentlyUsedEvicted ==
    /\ Len(topCache.ll) <= topCache.capacity
    /\ Cardinality(topCache.cache) <= topCache.capacity
    /\ {topCache.ll[i].key : i \in DOMAIN topCache.ll} = topCache.cache
    /\ Len(topCache.ll) = min(topCache.capacity, Cardinality({key \in LruKeys : Adds(key) # {}}))
    /\ \A i, j \in DOMAIN topCache.ll :
           i < j => LastUse(topCache.ll[i].key) > LastUse(topCache.ll[j].key)
    /\ \A key \in LruKeys \ topCache.cache, other \in topCache.cache :
           LastUse(key) < LastUse(other)
    /\ \A i \in DOMAIN topCache.ll : <<topCache.ll[i].val>> = LatestAdd(topCache.ll[i].key)
    /\ kernel.op = "Get" =>
           kernel.result = IF kernel.a \in topCache.cache THEN LatestAdd(kernel.a) ELSE <<>>

\* a full cache, a Get that hit the older key, then an Add of a third key:
\* the key added second is evicted, the key added first stays
C26_Witness ==
    /\ Len(log) = 4
    /\ log[1].op = "Add" /\ log[2].op = "Add" /\ log[1].term # log[2].term
    /\ log[3].op = "Get" /\ log[3].term = log[1].term /\ log[3].hit
    /\ log[4].op = "Add" /\ log[4].term \notin {log[1].term, log[2].term}
    /\ topCache.cache = {log[1].term, log[4].term}

(***************************************************************************)
(* Properties of the cache within Lookup.                                  *)
(***************************************************************************)
\* C27: a lookup with verbosity Top that returns a suggestion, by any path
\* (length gate, exact-match short-circuit, k = 0 shortcut or full search),
\* leaves the cache mapping the phrase to the returned item, so that the
\* next lookup of the phrase is a hit.
C27_TopResultCached ==
    (LookedUp /\ ret.verbosity = Top /\ Len(ret.result) > 0) =>
        /\ ret.phrase \in topCache.cache
        /\ \E i \in DOMAIN topCache.ll :
               topCache.ll[i] = [key |-> ret.phrase, val |-> ret.result[1]]

(***************************************************************************)
(* Properties of the search.                                               *)
(***************************************************************************)
\* C28: for every store, query, verbosity and k, no dictionary term appears
\* more than once in the list lookup returns, terms of length 1 and terms
\* reached through the empty candidate included.
C28_NoTermTwice ==
    LookedUp =>
        \A i, j \in DOMAIN ret.result :
            ret.result[i].Term = ret.result[j].Term => i = j

\* the candidate queue at the end of processCandidate, empty when Lookup
\* returns before the search; cp is the acquired processor
FrontierAfter(e, maxEditDistance, cp, exactMatch) ==
    IF \/ cp.phraseLen - maxEditDistance > e.maxLength
       \/ exactMatch.shouldStop
       \/ maxEditDistance = 0
    THEN <<>>
    ELSE Search(e, maxEditDistance, exactMatch.cp).candidates

Frontier(e, phrase, verbosity, maxEditDistance) ==
    FrontierAfter(e, maxEditDistance,
                  acquireCandidateProcessor(maxEditDistance, verbosity, phrase),
                  checkExactMatch(e, phrase, verbosity,
                                  acquireCandidateProcessor(maxEditDistance, verbosity, phrase)))

\* the queue holds delete-variants of prefix by at most k deletions, none
\* longer than prefix, each once, in non-increasing length
FrontierOrdered(queue, prefix, k) ==
    /\ \A i \in DOMAIN queue :
           /\ queue[i] \in DeletesWithin(prefix, k)
           /\ Len(queue[i]) <= Len(prefix)
    /\ \A i, j \in DOMAIN queue :
           /\ queue[i] = queue[j] => i = j
           /\ i < j => Len(queue[i]) >= Len(queue[j])

\* C29: for every verbosity, every string ever placed on the candidate queue
\* is a delete-variant of the PrefixLength-truncated query obtained by at
\* most k deletions, no candidate is longer than the truncated query, each
\* string is enqueued at most once, and candidates appear on the queue in
\* non-increasing length.
C29_FrontierInvariant ==
    LookedUp =>
        FrontierOrdered(Frontier(s, ret.phrase, ret.verbosity, ret.k),
                        Truncated(s, ret.phrase), ret.k)

\* C30: after every addTerm or LoadDictionary call returns, a LoadDictionary
\* call that returns a read error after accepting lines included, each
\* term_id i of the main store appears in the posting run of every
\* delete-variant of term[i].
C30_EveryTermIndexed ==
    (~ret.panic /\ ret.op # "loading") =>
        \A i \in DOMAIN s.words :
            \A v \in editsPrefix(s, s.words[i]) :
                /\ v \in DOMAIN s.DeletesIdx
                /\ i - 1 \in Postings(s, v)

====
